---- MODULE Spec2Model ----
(***************************************************************************)
(* Model of the node-graph adapter layer of ComfyUI-sonar (py/nodes.py).   *)
(*                                                                         *)
(* Floats are modelled as exact rationals <<numerator, denominator>> for   *)
(* chain factors, and as small integers for tensor values and multipliers. *)
(* Tensors are records of a storage layout, a dtype and one value per      *)
(* batch position.  Chain objects live in a heap (the sequence `chains`),  *)
(* so that aliasing and in-place mutation are visible.                     *)
(***************************************************************************)
EXTENDS Integers, Sequences, FiniteSets, TLC

VARIABLES chains, lastGo,
          torch_rng, py_rng,
          nlArgs, lastNL, keptNL,
          cnArgs, lastCN,
          samplerWire, lastSF,
          MODULES, NODE_CLASS_MAPPINGS, lastNode

chainVars == <<chains, lastGo>>
rngVars == <<torch_rng, py_rng>>
nlVars == <<nlArgs, lastNL, keptNL>>
cnVars == <<cnArgs, lastCN>>
ovVars == <<samplerWire, lastSF>>
nodeVars == <<MODULES, NODE_CLASS_MAPPINGS, lastNode>>
vars == <<chains, lastGo, torch_rng, py_rng, nlArgs, lastNL, keptNL, cnArgs,
          lastCN, samplerWire, lastSF, MODULES, NODE_CLASS_MAPPINGS, lastNode>>

\* ------------------------------------------------------------------------
\* Bounds
\* ------------------------------------------------------------------------
MaxChains == 3
MaxRepeat == 2
MaxDepth == 2
MaxSteps == 2

\* ------------------------------------------------------------------------
\* Input domains
\* ------------------------------------------------------------------------
FactorValues == {-1, 0, 1}
RescaleValues == {0, 4}
ItemClasses == {"CustomNoiseItem", "ScheduledNoise"}
ZeroSumOutcomes == {"raise", "same"}

\* ------------------------------------------------------------------------
\* Exact arithmetic on factors
\* ------------------------------------------------------------------------
Abs(n) == IF n < 0 THEN -n ELSE n

RECURSIVE GCD(_, _)
GCD(a, b) == IF b = 0 THEN a ELSE GCD(b, a % b)

Norm(q) ==
    LET n == IF q[2] < 0 THEN -q[1] ELSE q[1]
        d == Abs(q[2])
        g == GCD(Abs(n), d)
    IN  IF n = 0 THEN <<0, 1>> ELSE <<n \div g, d \div g>>

Rat(k) == <<k, 1>>
RAdd(p, q) == Norm(<<p[1] * q[2] + q[1] * p[2], p[2] * q[2]>>)
RMul(p, q) == Norm(<<p[1] * q[1], p[2] * q[2]>>)
RDiv(p, q) == Norm(<<p[1] * q[2], p[2] * q[1]>>)

\* ------------------------------------------------------------------------
\* noise.CustomNoiseChain
\* ------------------------------------------------------------------------
NewChain == <<>>

ChainClone(items) == [i \in 1..Len(items) |-> items[i]]

ChainAdd(items, item) == Append(items, item)

RECURSIVE FactorSum(_)
FactorSum(items) ==
    IF items = <<>> THEN Rat(0)
    ELSE RAdd(items[1].factor, FactorSum(Tail(items)))

ChainRescaled(items, target) ==
    LET s == FactorSum(items)
    IN  [i \in 1..Len(items) |->
            [items[i] EXCEPT !.factor = RDiv(RMul(@, target), s)]]

Factors(items) == [i \in 1..Len(items) |-> items[i].factor]
Classes(items) == [i \in 1..Len(items) |-> items[i].cls]

\* ------------------------------------------------------------------------
\* SonarCustomNoiseNodeBase.go
\* ------------------------------------------------------------------------
\* nis = sonar_custom_noise_opt.clone() if sonar_custom_noise_opt
\*       else noise.CustomNoiseChain()          (opt = 0 stands for None)
NodeInputChainAlias(heap, opt) ==
    IF opt # 0
    THEN [heap |-> heap, nis |-> opt]
    ELSE [heap |-> Append(heap, NewChain), nis |-> Len(heap) + 1]

NodeInputChain(heap, opt) ==
    IF opt # 0
    THEN [heap |-> Append(heap, ChainClone(heap[opt])), nis |-> Len(heap) + 1]
    ELSE [heap |-> Append(heap, NewChain), nis |-> Len(heap) + 1]

\* if factor != 0: nis.add(self.get_item_class()(factor, **kwargs))
NodeAddAlways(heap, nis, factor, cls) ==
    [heap EXCEPT ![nis] = ChainAdd(@, [factor |-> Rat(factor), cls |-> cls])]

NodeAdd(heap, nis, factor, cls) ==
    IF factor # 0
    THEN [heap EXCEPT ![nis] = ChainAdd(@, [factor |-> Rat(factor), cls |-> cls])]
    ELSE heap

\* return (nis if rescale == 0 else nis.rescaled(rescale),)
\* out = 0 stands for an exception leaving the call.
NodeResultNoRescale(heap, nis, rescale, zs) ==
    [heap |-> heap, out |-> nis]

NodeResult(heap, nis, rescale, zs) ==
    IF rescale = 0
    THEN [heap |-> heap, out |-> nis]
    ELSE IF FactorSum(heap[nis]) = Rat(0)
         THEN IF zs = "raise"
              THEN [heap |-> heap, out |-> 0]
              ELSE [heap |-> Append(heap, ChainClone(heap[nis])),
                    out |-> Len(heap) + 1]
         ELSE [heap |-> Append(heap, ChainRescaled(heap[nis], Rat(rescale))),
               out |-> Len(heap) + 1]

\* The objects a call leaves behind: the chains that existed before it (at
\* their old addresses) and the chain it returned; temporaries are dropped.
Collect(old, heap, out) ==
    LET kept == SubSeq(heap, 1, Len(old))
    IN  IF out > Len(old)
        THEN [heap |-> Append(kept, heap[out]), out |-> Len(old) + 1]
        ELSE [heap |-> kept, out |-> out]

NodeGo(heap, opt, factor, rescale, cls, zs) ==
    LET r1 == NodeInputChain(heap, opt)
        h2 == NodeAdd(r1.heap, r1.nis, factor, cls)
        r3 == NodeResult(h2, r1.nis, rescale, zs)
    IN  Collect(heap, r3.heap, r3.out)

NoGo == [called |-> FALSE, opt |-> 0, factor |-> 0, rescale |-> 0,
         cls |-> "CustomNoiseItem", pre |-> <<>>, out |-> 0]

Go ==
    /\ Len(chains) < MaxChains
    /\ \E opt \in {0} \cup DOMAIN chains, factor \in FactorValues,
          rescale \in RescaleValues, cls \in ItemClasses,
          zs \in ZeroSumOutcomes :
          LET r == NodeGo(chains, opt, factor, rescale, cls, zs)
          IN  /\ chains' = r.heap
              /\ lastGo' = [called |-> TRUE, opt |-> opt, factor |-> factor,
                            rescale |-> rescale, cls |-> cls,
                            pre |-> IF opt = 0 THEN <<>> ELSE chains[opt],
                            out |-> r.out]
    /\ UNCHANGED <<rngVars, nlVars, cnVars, ovVars, nodeVars>>

\* ------------------------------------------------------------------------
\* Process-wide random-number generators (torch CPU generator, random)
\* ------------------------------------------------------------------------
\* A generator state is the seed it was last seeded with and the number of
\* draws made since; a generator nobody has seeded yet has seed NoSeed.
NoSeed == -1
BootRng == [seed |-> NoSeed, pos |-> 0]
ManualSeed(seed) == [seed |-> seed, pos |-> 0]
Advance(rng) == [rng EXCEPT !.pos = @ + 1]

\* ------------------------------------------------------------------------
\* Tensors: a storage layout, a dtype and one element per batch position.
\* An element is the noise term it was drawn as (core) and the operations
\* applied to it since (ops).
\* ------------------------------------------------------------------------
Layouts == {"strided", "sparse_coo", "sparse_csr"}
SampledLayouts == {"strided", "sparse_coo"}
Dtypes == {"float16", "float32"}
BatchSizes == {1, 2}
SeedValues == {0, 1}
NoiseTypes == {"gaussian", "uniform"}

NoSigma == -1
NoCore == [src |-> "none", noise_type |-> "none", seed |-> NoSeed,
           cpu |-> TRUE, normalized |-> FALSE,
           sigma_min |-> NoSigma, sigma_max |-> NoSigma,
           sigma |-> NoSigma, sigma_next |-> NoSigma,
           rng |-> BootRng, example |-> 0, at |-> 0]
ZeroElem == [zero |-> TRUE, core |-> NoCore, ops |-> <<>>]

\* the reference latent: example i of a batch of n is the element <<i>>
Examples(n) == [i \in 1..n |-> i - 1]
Latent(layout, dtype, n) ==
    [layout |-> layout, dtype |-> dtype, examples |-> Examples(n)]

Op(name, n, sigma, model) ==
    [op |-> name, n |-> n, sigma |-> sigma, model |-> model]
Apply(elem, op) == [elem EXCEPT !.ops = Append(@, op)]

\* ------------------------------------------------------------------------
\* noise.get_noise_sampler / make_noise_sampler and the sampler they return
\* ------------------------------------------------------------------------
\* Building a sampler draws nothing: it only binds its arguments.
MakeSampler(src, noise_type, x, sigma_min, sigma_max, seed, cpu, normalized) ==
    [src |-> src, noise_type |-> noise_type, examples |-> x.examples,
     sigma_min |-> sigma_min, sigma_max |-> sigma_max, seed |-> seed,
     cpu |-> cpu, normalized |-> normalized]

\* One call ns(sigma, sigma_next): a tensor shaped like the reference.  A
\* sample may depend on everything the sampler was bound to, on the sigmas
\* and on the state of the process-wide tensor generator it draws from.
SampleData(ns, sigma, sigma_next, rng) ==
    [i \in 1..Len(ns.examples) |->
        [zero |-> FALSE,
         core |-> [src |-> ns.src, noise_type |-> ns.noise_type,
                   seed |-> ns.seed, cpu |-> ns.cpu,
                   normalized |-> ns.normalized,
                   sigma_min |-> ns.sigma_min, sigma_max |-> ns.sigma_max,
                   sigma |-> sigma, sigma_next |-> sigma_next,
                   rng |-> rng, example |-> ns.examples[i], at |-> i],
         ops |-> <<>>]]

\* noise_generation.scale_noise(result, multiplier, normalized=True)
ScaleNoise(data, multiplier) ==
    [i \in 1..Len(data) |->
        Apply(data[i], Op("scale_noise", multiplier.base, multiplier.sigma,
                          multiplier.model))]

\* ------------------------------------------------------------------------
\* NoisyLatentLikeNode.go
\* ------------------------------------------------------------------------
NoSigmas == [connected |-> FALSE, v |-> <<>>]
SigmaInputs == {NoSigmas} \cup
               {[connected |-> TRUE, v |-> v] : v \in {<<>>, <<3>>, <<3, 1>>}}
ModelInputs == {"None", "model"}
CustomInputs == {"None", "chain"}
MultiplierValues == {1, 2}

NLInputs ==
    [noise_type : NoiseTypes, seed : SeedValues,
     latent : {Latent("strided", "float32", n) : n \in BatchSizes},
     multiplier : MultiplierValues, add_to_latent : BOOLEAN,
     repeat_batch : 0..MaxRepeat, custom_noise_opt : CustomInputs,
     mul_by_sigmas_opt : SigmaInputs, model_opt : ModelInputs]

\* lines 121-125
NLCheckModelNever(a) == "none"

NLCheckModel(a) ==
    IF a.mul_by_sigmas_opt.connected /\ Len(a.mul_by_sigmas_opt.v) > 0
       /\ a.model_opt = "None"
    THEN "ValueError"
    ELSE "none"

\* lines 126-138: multiplier *= f(sigmas[0], max_denoise) / scale_factor
NLMultiplier(a) ==
    IF a.mul_by_sigmas_opt.connected /\ Len(a.mul_by_sigmas_opt.v) > 0
    THEN [base |-> a.multiplier, sigma |-> a.mul_by_sigmas_opt.v[1],
          model |-> a.model_opt]
    ELSE [base |-> a.multiplier, sigma |-> NoSigma, model |-> "None"]

\* lines 139-143
NLSigmaBounds(a) ==
    LET s == a.mul_by_sigmas_opt.v
    IN  IF a.mul_by_sigmas_opt.connected /\ Len(s) > 1
        THEN [sigma_min |-> s[1], sigma_max |-> s[Len(s)],
              sigma |-> s[1], sigma_next |-> s[2]]
        ELSE [sigma_min |-> NoSigma, sigma_max |-> NoSigma,
              sigma |-> NoSigma, sigma_next |-> NoSigma]

\* lines 145-159
NLMakeSamplerRegistry(a, b) ==
    MakeSampler("registry", a.noise_type, a.latent,
                b.sigma_min, b.sigma_max, a.seed, TRUE, FALSE)

NLMakeSampler(a, b) ==
    IF a.custom_noise_opt # "None"
    THEN MakeSampler(a.custom_noise_opt, "none", a.latent,
                     b.sigma_min, b.sigma_max, NoSeed, TRUE, TRUE)
    ELSE MakeSampler("registry", a.noise_type, a.latent,
                     b.sigma_min, b.sigma_max, a.seed, TRUE, FALSE)

\* line 162
NLReseedSkipped(rng, seed) == rng

NLReseed(rng, seed) == ManualSeed(seed)

\* lines 163-166: ns(sigma, sigma_next) for _ in range(repeat_batch), then
\* torch.cat.  failAt = k > 0 makes the k-th sampler call raise; torch.cat
\* of no tensors raises.
RECURSIVE NLDraw(_, _, _, _, _, _)
NLDraw(ns, b, rng, k, n, failAt) ==
    IF k > n
    THEN [err |-> IF n = 0 THEN "RuntimeError" ELSE "none",
          rng |-> rng, data |-> <<>>, draws |-> 0]
    ELSE IF k = failAt
    THEN [err |-> "RuntimeError", rng |-> rng, data |-> <<>>, draws |-> 1]
    ELSE LET rest == NLDraw(ns, b, Advance(rng), k + 1, n, failAt)
         IN  [err |-> rest.err, rng |-> rest.rng,
              data |-> IF rest.err = "none"
                       THEN SampleData(ns, b.sigma, b.sigma_next, rng) \o rest.data
                       ELSE <<>>,
              draws |-> rest.draws + 1]

\* lines 167-168
NLRestoreSkipped(randst, rng) == rng

NLRestore(randst, rng) == randst

\* lines 170-173
NLAddToLatentUntiled(a, data) ==
    IF a.add_to_latent
    THEN [p \in 1..Len(data) |->
            Apply(data[p],
                  Op("add", a.latent.examples[IF p <= Len(a.latent.examples)
                                              THEN p
                                              ELSE Len(a.latent.examples)],
                     NoSigma, "None"))]
    ELSE data

NLAddToLatent(a, data) ==
    IF a.add_to_latent
    THEN [p \in 1..Len(data) |->
            Apply(data[p],
                  Op("add", a.latent.examples[((p - 1) % Len(a.latent.examples)) + 1],
                     NoSigma, "None"))]
    ELSE data

NoNL == [called |-> FALSE, err |-> "none", built |-> FALSE,
         reseeded |-> FALSE, draws |-> 0, rngBefore |-> BootRng,
         out |-> <<>>]

NoisyLatentLikeGo(a, rng, failAt) ==
    IF NLCheckModel(a) # "none"
    THEN [rng |-> rng,
          rec |-> [NoNL EXCEPT !.called = TRUE, !.err = NLCheckModel(a),
                               !.rngBefore = rng]]
    ELSE LET multiplier == NLMultiplier(a)
             b == NLSigmaBounds(a)
             ns == NLMakeSampler(a, b)
             randst == rng
             seeded == NLReseed(rng, a.seed)
             d == NLDraw(ns, b, seeded, 1, a.repeat_batch, failAt)
             after == NLRestore(randst, d.rng)
         IN  [rng |-> after,
              rec |-> [called |-> TRUE, err |-> d.err, built |-> TRUE,
                       reseeded |-> TRUE, draws |-> d.draws,
                       rngBefore |-> rng,
                       out |-> IF d.err = "none"
                               THEN NLAddToLatent(a, ScaleNoise(d.data, multiplier))
                               ELSE <<>>]]

NLCall ==
    /\ \E failAt \in 0..nlArgs.repeat_batch, keep \in BOOLEAN :
          LET r == NoisyLatentLikeGo(nlArgs, torch_rng, failAt)
          IN  /\ torch_rng' = r.rng
              /\ lastNL' = r.rec
              /\ keptNL' = IF keep /\ lastNL.called /\ lastNL.err = "none"
                           THEN lastNL ELSE keptNL
    /\ UNCHANGED <<py_rng, nlArgs, chainVars, cnVars, ovVars, nodeVars>>

\* ------------------------------------------------------------------------
\* CustomNOISE
\* ------------------------------------------------------------------------
NoBatchIndex == [present |-> FALSE, v |-> <<>>]
BatchIndexInputs ==
    {NoBatchIndex} \cup
    {[present |-> TRUE, v |-> v] : v \in UNION {[1..n -> {0, 1, 2}] : n \in {1, 2, 3}}}
CNMultiplierValues == {0, 1, 2}

CNInputs ==
    [seed : SeedValues, cpu_noise : BOOLEAN, normalize : BOOLEAN,
     multiplier : CNMultiplierValues,
     latent : {Latent(l, d, n) : l \in Layouts, d \in Dtypes, n \in BatchSizes},
     batch_index : BatchIndexInputs]

NoTensor == [layout |-> "none", dtype |-> "none", data |-> <<>>]

\* lines 761-765: what happens to a sampled tensor of layout `got` for a
\* target latent of layout `want`
CNLayoutUnchecked(got, want) == "same"

CNLayoutStep(got, want) ==
    IF got # want
    THEN IF want = "sparse_coo" THEN "to_sparse" ELSE "error"
    ELSE "same"

\* line 766
CNMultiply(data, multiplier) ==
    IF multiplier = 1
    THEN data
    ELSE [i \in 1..Len(data) |-> Apply(data[i], Op("mul", multiplier, NoSigma, "None"))]

\* lines 749-766; x is the reference tensor, sampled the layout of the
\* tensor the sampler produced
CNSampleNoise(self, x, seed, rng, sampled) ==
    LET ns == MakeSampler(self.custom_noise, "none", x, NoSigma, NoSigma,
                          seed, self.cpu_noise, self.normalize)
        raw == [layout |-> sampled, dtype |-> x.dtype,
                data |-> SampleData(ns, NoSigma, NoSigma, rng)]
        step == CNLayoutStep(raw.layout, x.layout)
    IN  [seed |-> seed, target |-> x.layout, raw |-> raw, step |-> step,
         err |-> IF step = "error" THEN "NotImplementedError" ELSE "none",
         ret |-> CASE step = "error" -> NoTensor
                   [] step = "to_sparse" ->
                        [layout |-> "sparse_coo", dtype |-> raw.dtype,
                         data |-> raw.data]
                   [] OTHER ->
                        [raw EXCEPT !.data = CNMultiply(@, self.multiplier)],
         rng |-> Advance(rng)]

\* np.unique(batch_inds, return_inverse=True)
RECURSIVE SortedSeq(_)
SortedSeq(S) ==
    IF S = {} THEN <<>>
    ELSE LET m == CHOOSE x \in S : \A y \in S : x <= y
         IN  <<m>> \o SortedSeq(S \ {m})

UniqueInds(b) == SortedSeq({b[p] : p \in DOMAIN b})

InverseIndsByPosition(b) ==
    [p \in DOMAIN b |-> ((p - 1) % Len(UniqueInds(b))) + 1]

InverseInds(b) ==
    LET u == UniqueInds(b)
    IN  [p \in DOMAIN b |-> CHOOSE k \in DOMAIN u : u[k] = b[p]]

\* line 788
CNIndexSeedFixed(seed, idx) == seed

CNIndexSeed(seed, idx) == seed + idx

\* line 787: latent_image[idx % batch_size].unsqueeze(0)
CNSourceExample(latent, idx) ==
    [latent EXCEPT !.examples = <<latent.examples[(idx % Len(latent.examples)) + 1]>>]

\* lines 785-791
RECURSIVE CNLoop(_, _, _, _, _, _)
CNLoop(self, latent, unique, idx, rng, sampled) ==
    IF idx > unique[Len(unique)]
    THEN [err |-> "none", rng |-> rng, log |-> <<>>, result |-> <<>>]
    ELSE LET c == CNSampleNoise(self, CNSourceExample(latent, idx),
                                CNIndexSeed(self.seed, idx), rng, sampled)
         IN  IF c.err # "none"
             THEN [err |-> c.err, rng |-> rng, log |-> <<c>>, result |-> <<>>]
             ELSE LET rest == CNLoop(self, latent, unique, idx + 1, c.rng, sampled)
                  IN  [err |-> rest.err, rng |-> rest.rng,
                       log |-> <<c>> \o rest.log,
                       result |-> IF \E k \in DOMAIN unique : unique[k] = idx
                                  THEN <<c.ret>> \o rest.result
                                  ELSE rest.result]

\* line 792: torch.cat(tuple(result[i] for i in inverse_inds), axis=0)
RECURSIVE CatData(_, _, _)
CatData(result, inverse, p) ==
    IF p > Len(inverse) THEN <<>>
    ELSE result[inverse[p]].data \o CatData(result, inverse, p + 1)

\* line 773
CNIsZeroNever(multiplier) == FALSE

CNIsZero(multiplier) == multiplier = 0

NoCN == [called |-> FALSE, err |-> "none", out |-> NoTensor, log |-> <<>>,
         torchBefore |-> BootRng, pyBefore |-> BootRng]

\* lines 768-792
GenerateNoiseResult(self, torch, py, sampled) ==
    LET latent == self.latent
        seeded == ManualSeed(self.seed)
        base == [NoCN EXCEPT !.called = TRUE, !.torchBefore = torch,
                             !.pyBefore = py]
    IN  IF CNIsZero(self.multiplier)
        THEN [torch |-> seeded, py |-> seeded,
              rec |-> [base EXCEPT !.out =
                         [layout |-> latent.layout, dtype |-> latent.dtype,
                          data |-> [i \in 1..Len(latent.examples) |-> ZeroElem]]]]
        ELSE IF ~self.batch_index.present
        THEN LET c == CNSampleNoise(self, latent, self.seed, seeded, sampled)
             IN  [torch |-> c.rng, py |-> seeded,
                  rec |-> [base EXCEPT !.err = c.err, !.out = c.ret,
                                       !.log = <<c>>]]
        ELSE LET unique == UniqueInds(self.batch_index.v)
                 inverse == InverseInds(self.batch_index.v)
                 l == CNLoop(self, latent, unique, 0, seeded, sampled)
             IN  [torch |-> l.rng, py |-> seeded,
                  rec |-> [base EXCEPT
                     !.err = l.err, !.log = l.log,
                     !.out = IF l.err # "none" THEN NoTensor
                             ELSE [layout |-> l.result[1].layout,
                                   dtype |-> l.result[1].dtype,
                                   data |-> CatData(l.result, inverse, 1)]]]

GenerateNoise ==
    /\ \E sampled \in SampledLayouts :
          LET r == GenerateNoiseResult(cnArgs, torch_rng, py_rng, sampled)
          IN  /\ torch_rng' = r.torch
              /\ py_rng' = r.py
              /\ lastCN' = r.rec
    /\ UNCHANGED <<cnArgs, chainVars, nlVars, ovVars, nodeVars>>

\* ------------------------------------------------------------------------
\* SamplerNodeConfigOverride
\* ------------------------------------------------------------------------
\* A Python dict is a function on the set of its keys.
EmptyDict == [k \in {} |-> 0]
Merge(a, b) ==
    [k \in DOMAIN a \cup DOMAIN b |-> IF k \in DOMAIN b THEN b[k] ELSE a[k]]
Without(d, keys) == [k \in DOMAIN d \ keys |-> d[k]]

KWARG_OVERRIDES == <<"s_noise", "eta", "s_churn", "r", "solver_type">>
OverrideKeys == {KWARG_OVERRIDES[i] : i \in DOMAIN KWARG_OVERRIDES}

\* A step function is known by its name and by the parameter names that
\* inspect.signature reports for it.
OverrideFunction ==
    [name |-> "SamplerNodeConfigOverride.sampler_function",
     params |-> {"model", "x", "sigmas", "args", "override_sampler_cfg",
                 "noise_sampler", "extra_args", "kwargs"}]
BaseFunctions ==
    {[name |-> "sample_euler",
      params |-> {"model", "x", "sigmas", "extra_args", "s_churn", "s_noise"}],
     [name |-> "sample_euler_ancestral",
      params |-> {"model", "x", "sigmas", "extra_args", "eta", "s_noise",
                  "noise_sampler"}],
     [name |-> "sample_dpmpp_sde",
      params |-> {"model", "x", "sigmas", "extra_args", "eta", "s_noise",
                  "noise_sampler", "r"}],
     [name |-> "sample_dpmpp_2m_sde",
      params |-> {"model", "x", "sigmas", "extra_args", "eta", "s_noise",
                  "noise_sampler", "solver_type"}]}

NoSampler == MakeSampler("None", "none", Latent("strided", "float32", 1),
                         NoSigma, NoSigma, NoSeed, TRUE, FALSE)
HostSampler == MakeSampler("host", "none", Latent("strided", "float32", 1),
                           NoSigma, NoSigma, NoSeed, TRUE, FALSE)

\* the SAMPLER inputs a graph can start from: a step function of the host
\* with the extra options its node gave it
BaseSamplers ==
    {[sampler_function |-> f, extra_options |-> o,
      inpaint_options |-> EmptyDict] :
        f \in BaseFunctions,
        o \in {EmptyDict, [noise_sampler |-> HostSampler, s_noise |-> 7]}}

OverrideLevels == {1, 2}
OverrideNoiseTypes == {"None", "gaussian"}
GetSamplerInputs ==
    {[eta |-> v, s_noise |-> 10 + v, s_churn |-> 20 + v, r |-> 30 + v,
      sde_solver |-> IF v = 1 THEN "midpoint" ELSE "heun",
      cpu_noise |-> TRUE, noise_type |-> nt, custom_noise_opt |-> cn,
      normalize |-> TRUE] :
        v \in OverrideLevels, nt \in OverrideNoiseTypes, cn \in CustomInputs}

\* NoiseType[noise_type.upper()]
NoiseTypeMember(noise_type) ==
    CASE noise_type = "gaussian" -> "GAUSSIAN"
      [] noise_type = "uniform" -> "UNIFORM"
      [] OTHER -> "None"

\* lines 1308-1309 without `sampler.extra_options |`
get_samplerFreshOptions(sampler, a) ==
    [sampler_function |-> OverrideFunction,
     extra_options |->
        [override_sampler_cfg |->
            [sampler |-> sampler,
             noise_type |-> IF a.noise_type # "None"
                            THEN NoiseTypeMember(a.noise_type)
                            ELSE "None",
             custom_noise |-> a.custom_noise_opt,
             s_noise |-> a.s_noise,
             eta |-> a.eta,
             s_churn |-> a.s_churn,
             r |-> a.r,
             solver_type |-> a.sde_solver,
             cpu_noise |-> a.cpu_noise,
             normalize |-> a.normalize]],
     inpaint_options |-> Merge(sampler.inpaint_options, EmptyDict)]

\* lines 1291-1327
get_sampler(sampler, a) ==
    [sampler_function |-> OverrideFunction,
     extra_options |->
        Merge(sampler.extra_options,
              [override_sampler_cfg |->
                  [sampler |-> sampler,
                   noise_type |-> IF a.noise_type # "None"
                                  THEN NoiseTypeMember(a.noise_type)
                                  ELSE "None",
                   custom_noise |-> a.custom_noise_opt,
                   s_noise |-> a.s_noise,
                   eta |-> a.eta,
                   s_churn |-> a.s_churn,
                   r |-> a.r,
                   solver_type |-> a.sde_solver,
                   cpu_noise |-> a.cpu_noise,
                   normalize |-> a.normalize]]),
     inpaint_options |-> Merge(sampler.inpaint_options, EmptyDict)]

\* how many SamplerConfigOverride nodes a descriptor went through
RECURSIVE Depth(_)
Depth(sampler) ==
    IF sampler.sampler_function = OverrideFunction
    THEN 1 + Depth(sampler.extra_options["override_sampler_cfg"].sampler)
    ELSE 0

\* binding of the keyword arguments to the named parameters of
\* sampler_function (lines 1331-1341); a parameter nobody passed is None
BoundCfg(kw) ==
    IF "override_sampler_cfg" \in DOMAIN kw
    THEN kw["override_sampler_cfg"] ELSE EmptyDict
BoundNoiseSampler(kw) ==
    IF "noise_sampler" \in DOMAIN kw THEN kw["noise_sampler"] ELSE NoSampler
BoundKwargs(kw) ==
    Without(kw, {"override_sampler_cfg", "noise_sampler", "extra_args"})

\* lines 1342-1343: `if not override_sampler_cfg`, true of None and of {}
ConfigMissingOnlyAbsent(kw) == "override_sampler_cfg" \notin DOMAIN kw

ConfigMissing(kw) ==
    \/ "override_sampler_cfg" \notin DOMAIN kw
    \/ DOMAIN kw["override_sampler_cfg"] = {}

\* line 1354: sigmas[sigmas > 0].min(), sigmas.max()
SamplerSigmas == {<<3, 1, 0>>, <<0>>}
Positive(sigmas) == {sigmas[i] : i \in {j \in DOMAIN sigmas : sigmas[j] > 0}}
SetMin(S) == CHOOSE m \in S : \A n \in S : m <= n
SetMax(S) == CHOOSE m \in S : \A n \in S : m >= n

\* lines 1356-1374
ChooseNoiseSamplerTypeFirst(cfg, host_ns, x, sigmas, seed) ==
    LET sigma_min == SetMin(Positive(sigmas))
        sigma_max == SetMax({sigmas[i] : i \in DOMAIN sigmas})
    IN  IF cfg.noise_type # "None"
        THEN MakeSampler("registry", cfg.noise_type, x, sigma_min, sigma_max,
                         seed, cfg.cpu_noise, cfg.normalize)
        ELSE IF cfg.custom_noise # "None"
        THEN MakeSampler(cfg.custom_noise, "none", x, sigma_min, sigma_max,
                         seed, cfg.cpu_noise, cfg.normalize)
        ELSE host_ns

ChooseNoiseSampler(cfg, host_ns, x, sigmas, seed) ==
    LET sigma_min == SetMin(Positive(sigmas))
        sigma_max == SetMax({sigmas[i] : i \in DOMAIN sigmas})
    IN  IF cfg.custom_noise # "None"
        THEN MakeSampler(cfg.custom_noise, "none", x, sigma_min, sigma_max,
                         seed, cfg.cpu_noise, cfg.normalize)
        ELSE IF cfg.noise_type # "None"
        THEN MakeSampler("registry", cfg.noise_type, x, sigma_min, sigma_max,
                         seed, cfg.cpu_noise, cfg.normalize)
        ELSE host_ns

\* lines 1377-1379
PassNoiseSampler(kwargs, params, noise_sampler) ==
    IF "noise_sampler" \in params
    THEN Merge(kwargs, [noise_sampler |-> noise_sampler])
    ELSE kwargs

\* lines 1380-1383
OverrideKwargsUndeclared(kwargs, params, cfg) ==
    LET inj == {k \in OverrideKeys : k \in DOMAIN cfg}
    IN  [k \in DOMAIN kwargs \cup inj |->
            IF k \in inj THEN cfg[k] ELSE kwargs[k]]

OverrideKwargs(kwargs, params, cfg) ==
    LET inj == {k \in OverrideKeys : k \in params /\ k \in DOMAIN cfg}
    IN  [k \in DOMAIN kwargs \cup inj |->
            IF k \in inj THEN cfg[k] ELSE kwargs[k]]

\* One frame per step function entered, outermost first: what it was
\* given, what it built, what it handed to the function it wraps and how
\* it ended.
Frame(fn, pos, kw, err, built, ns, called, wrapped, ppos, passed) ==
    [fn |-> fn.name, pos |-> pos, received |-> kw, err |-> err,
     built |-> built, noise_sampler |-> ns, called |-> called,
     wrapped |-> wrapped, passed_pos |-> ppos, passed |-> passed]
NoFunction == [name |-> "None", params |-> {}]

\* the positional arguments of a step function: model, x, sigmas, *args
Positional(model, x, sigmas, args) ==
    [model |-> model, x |-> x, sigmas |-> sigmas, args |-> args]
NoPositional == Positional("None", Latent("strided", "float32", 1), <<>>, <<>>)

\* lines 1339, 1344-1345: extra_args defaults to None and is then replaced
\* by an empty mapping
BoundExtraArgs(kw) ==
    IF "extra_args" \in DOMAIN kw THEN kw["extra_args"] ELSE EmptyDict
\* line 1355: extra_args.get("seed")
ExtraArgsSeed(extra_args) ==
    IF "seed" \in DOMAIN extra_args THEN extra_args["seed"] ELSE NoSeed

\* lines 1384-1391 without line 1389
ForwardKwargsNoExtraArgs(kwargs, extra_args) == kwargs

\* lines 1384-1391: the call of the wrapped function passes
\* extra_args=extra_args next to **kwargs
ForwardKwargs(kwargs, extra_args) ==
    Merge(kwargs, [extra_args |-> extra_args])

\* fn(model, x, sigmas, *args, **kw); lines 1329-1391 when fn is
\* SamplerNodeConfigOverride.sampler_function
RECURSIVE Call(_, _, _)
Call(fn, pos, kw) ==
    IF fn # OverrideFunction
    THEN <<Frame(fn, pos, kw, "none", "None", NoSampler, FALSE, NoFunction,
                 NoPositional, EmptyDict)>>
    ELSE IF ConfigMissing(kw)
    THEN <<Frame(fn, pos, kw, "ValueError: Override sampler config missing!",
                 "None", NoSampler, FALSE, NoFunction, NoPositional,
                 EmptyDict)>>
    ELSE IF "sampler" \notin DOMAIN BoundCfg(kw)
    THEN <<Frame(fn, pos, kw, "KeyError", "None", NoSampler, FALSE,
                 NoFunction, NoPositional, EmptyDict)>>
    ELSE IF Positive(pos.sigmas) = {}
    THEN <<Frame(fn, pos, kw, "RuntimeError", "None", NoSampler, FALSE,
                 NoFunction, NoPositional, EmptyDict)>>
    ELSE LET cfg == BoundCfg(kw)
             extra_args == BoundExtraArgs(kw)
             noise_sampler ==
                ChooseNoiseSampler(cfg, BoundNoiseSampler(kw), pos.x,
                                   pos.sigmas, ExtraArgsSeed(extra_args))
             built == IF noise_sampler = BoundNoiseSampler(kw)
                      THEN "None" ELSE noise_sampler.src
             params == cfg.sampler.sampler_function.params
             kwargs == ForwardKwargs(
                          OverrideKwargs(
                             PassNoiseSampler(BoundKwargs(kw), params,
                                              noise_sampler),
                             params, cfg),
                          extra_args)
         IN  <<Frame(fn, pos, kw, "none", built, noise_sampler, TRUE,
                     cfg.sampler.sampler_function, pos, kwargs)>>
             \o Call(cfg.sampler.sampler_function, pos, kwargs)

NoSF == [called |-> FALSE, via |-> "none", frames |-> <<>>, err |-> "none"]
SFResult(via, frames) ==
    [called |-> TRUE, via |-> via, frames |-> frames,
     err |-> frames[Len(frames)].err]

\* the node runs: the SAMPLER on its input is replaced by the one it returns
GetSampler ==
    /\ Depth(samplerWire) < MaxDepth
    /\ \E a \in GetSamplerInputs : samplerWire' = get_sampler(samplerWire, a)
    /\ UNCHANGED <<lastSF, chainVars, rngVars, nlVars, cnVars, nodeVars>>

\* what the host passes next to the descriptor's extra_options
HostKwargs(seed) ==
    [extra_args |-> [seed |-> seed], callback |-> "k_callback",
     disable |-> "False"]
HostPositional(sigmas) ==
    Positional("model_k", Latent("strided", "float32", 1), sigmas, <<>>)

\* the host samples with the descriptor: its step function is invoked with
\* its extra_options as keyword arguments
Sample ==
    /\ \E sigmas \in SamplerSigmas, seed \in SeedValues :
          lastSF' = SFResult("host",
                             Call(samplerWire.sampler_function,
                                  HostPositional(sigmas),
                                  Merge(samplerWire.extra_options,
                                        HostKwargs(seed))))
    /\ UNCHANGED <<samplerWire, chainVars, rngVars, nlVars, cnVars, nodeVars>>

\* sampler_function invoked by hand, with no configuration or an empty one
SampleUnconfigured ==
    /\ \E given \in {EmptyDict, [override_sampler_cfg |-> EmptyDict]} :
          lastSF' = SFResult("direct",
                             Call(OverrideFunction,
                                  HostPositional(<<3, 1, 0>>),
                                  Merge(Merge(Without(samplerWire.extra_options,
                                                {"override_sampler_cfg"}),
                                              given),
                                        [extra_args |-> [seed |-> 0]])))
    /\ UNCHANGED <<samplerWire, chainVars, rngVars, nlVars, cnVars, nodeVars>>

\* the step function of a configured descriptor invoked by hand: an extra
\* positional argument after sigmas, and no extra_args
DirectArgs == {<<>>, <<"extra_positional">>}
SampleDirect ==
    /\ samplerWire.sampler_function = OverrideFunction
    /\ \E args \in DirectArgs :
          lastSF' = SFResult("direct",
                             Call(samplerWire.sampler_function,
                                  Positional("model_k",
                                             Latent("strided", "float32", 1),
                                             <<3, 1, 0>>, args),
                                  Merge(samplerWire.extra_options,
                                        [disable |-> "True"])))
    /\ UNCHANGED <<samplerWire, chainVars, rngVars, nlVars, cnVars, nodeVars>>

\* ------------------------------------------------------------------------
\* Module load: the registration table and the sibling plugins
\* ------------------------------------------------------------------------
\* external.MODULES maps the name of each sibling plugin that is available
\* to its namespace; of a namespace only the names that its restart_sampling
\* part exposes matter here.
PluginNames == {"bleh", "restart"}
ModuleInputs ==
    UNION {[names -> {{}, {"RestartSampler"}}] : names \in SUBSET PluginNames}

\* lines 1394-1409
UnconditionalNodes ==
    [SamplerSonarEuler |-> "SamplerNodeSonarEuler",
     SamplerSonarEulerA |-> "SamplerNodeSonarEulerAncestral",
     SamplerSonarDPMPPSDE |-> "SamplerNodeSonarDPMPPSDE",
     SonarGuidanceConfig |-> "GuidanceConfigNode",
     SamplerConfigOverride |-> "SamplerNodeConfigOverride",
     NoisyLatentLike |-> "NoisyLatentLikeNode",
     SonarCustomNoise |-> "SonarCustomNoiseNode",
     SonarCompositeNoise |-> "SonarCompositeNoiseNode",
     SonarModulatedNoise |-> "SonarModulatedNoiseNode",
     SonarRepeatedNoise |-> "SonarRepeatedNoiseNode",
     SonarScheduledNoise |-> "SonarScheduledNoiseNode",
     SonarGuidedNoise |-> "SonarGuidedNoiseNode",
     SonarRandomNoise |-> "SonarRandomNoiseNode"]
    @@ ("SONAR_CUSTOM_NOISE to NOISE" :> "SonarToComfyNOISENode")

\* lines 1414-1506
RegisterBlendAlways(table, modules) ==
    Merge(table, [SonarBlendFilterNoise |-> "SonarBlendFilterNoiseNode"])

RegisterBlend(table, modules) ==
    IF "bleh" \in DOMAIN modules
    THEN Merge(table, [SonarBlendFilterNoise |-> "SonarBlendFilterNoiseNode"])
    ELSE table

\* lines 1508-1642
RegisterRestartNoWrapperTest(table, modules) ==
    IF "restart" \in DOMAIN modules
    THEN Merge(table,
               [KRestartSamplerCustomNoise |-> "KRestartSamplerCustomNoise",
                RestartSamplerCustomNoise |-> "RestartSamplerCustomNoise"])
    ELSE table

RegisterRestart(table, modules) ==
    IF "restart" \in DOMAIN modules
    THEN LET t == Merge(table, [KRestartSamplerCustomNoise |->
                                    "KRestartSamplerCustomNoise"])
         IN  IF "RestartSampler" \in modules["restart"]
             THEN Merge(t, [RestartSamplerCustomNoise |->
                                "RestartSamplerCustomNoise"])
             ELSE t
    ELSE table

\* the module body, executed once when the host imports the package
LoadModule ==
    /\ DOMAIN NODE_CLASS_MAPPINGS = {}
    /\ NODE_CLASS_MAPPINGS' =
          RegisterRestart(RegisterBlend(UnconditionalNodes, MODULES), MODULES)
    /\ UNCHANGED <<MODULES, lastNode, chainVars, rngVars, nlVars, cnVars,
                   ovVars>>

\* ------------------------------------------------------------------------
\* Normalization inputs of the noise nodes
\* ------------------------------------------------------------------------
\* Python values that reach a normalize parameter: the strings of the
\* three-valued inputs, the booleans and None.
NormalizeChoices == {"default", "forced", "disabled"}
BooleanInputs == {"True", "False"}

\* lines 267-270: None if val == "default" else val == "forced"
get_normalizeIdentity(val) == val

get_normalize(val) ==
    IF val = "default" THEN "None"
    ELSE IF val = "forced" THEN "True" ELSE "False"

\* lines 231-245 for a node without chain and rescale inputs: the item is
\* built from the keyword arguments unless factor is 0
NoNode == [called |-> FALSE, node |-> "None", inputs |-> EmptyDict,
           built |-> FALSE, item_class |-> "None", kwargs |-> EmptyDict,
           err |-> "none", p2s |-> <<>>, steps |-> 0, active |-> "None",
     out |-> EmptyDict]
NodeItem(node, inputs, factor, item_class, kwargs) ==
    [called |-> TRUE, node |-> node, inputs |-> inputs,
     built |-> factor # 0,
     item_class |-> IF factor # 0 THEN item_class ELSE "None",
     kwargs |-> IF factor # 0 THEN kwargs ELSE EmptyDict,
     err |-> "none", p2s |-> <<>>, steps |-> 0, active |-> "None",
     out |-> EmptyDict]
\* an exception leaves go before the item is built: nothing is returned
NodeRaised(node, inputs, err) ==
    [NoNode EXCEPT !.called = TRUE, !.node = node, !.inputs = inputs,
                   !.err = err]

\* lines 342-367
ModulatedKwargs(i) ==
    [normalize_result |-> get_normalize(i.normalize_result),
     normalize_noise |-> get_normalize(i.normalize_noise),
     normalize_ref |-> get_normalize(i.normalize_ref)]

\* lines 420-437
RepeatedKwargs(i) == [normalize |-> get_normalize(i.normalize)]

\* model.get_model_object("model_sampling").percent_to_sigma: the mapping
\* of the connected model, percentages in hundredths
PercentValues == {0, 20, 100}
ScheduleModels == {"modelA", "modelB"}
PercentToSigma(model, percent) ==
    IF model = "modelA"
    THEN CASE percent = 0 -> 14 [] percent = 20 -> 10 [] OTHER -> 0
    ELSE CASE percent = 0 -> 80 [] percent = 20 -> 40 [] OTHER -> 0

\* lines 509-511: the conversions go makes, in order
ScheduledConversions(i) ==
    <<[model |-> i.model, percent |-> i.start_percent],
      [model |-> i.model, percent |-> i.end_percent]>>

\* lines 498-519
ScheduledKwargsSwapped(i) ==
    [start_sigma |-> PercentToSigma(i.model, i.end_percent),
     end_sigma |-> PercentToSigma(i.model, i.start_percent),
     normalize |-> get_normalize(i.normalize),
     fallback_noise |-> i.fallback_sonar_custom_noise]

ScheduledKwargs(i) ==
    [start_sigma |-> PercentToSigma(i.model, i.start_percent),
     end_sigma |-> PercentToSigma(i.model, i.end_percent),
     normalize |-> get_normalize(i.normalize),
     fallback_noise |-> i.fallback_sonar_custom_noise]

ScheduledInputs ==
    {[model |-> "modelA", start_percent |-> 0, end_percent |-> 100,
      normalize |-> n, fallback_sonar_custom_noise |-> "None"] :
        n \in NormalizeChoices}
    \cup
    {[model |-> m, start_percent |-> sp, end_percent |-> ep,
      normalize |-> "default", fallback_sonar_custom_noise |-> f] :
        m \in ScheduleModels, sp \in PercentValues, ep \in PercentValues,
        f \in CustomInputs}

\* the scheduled item at one sampling step: the wrapped noise inside the
\* closed window between its two stored sigmas, the fallback (or zero
\* noise) outside it
StepSigmas == {0, 10, 14, 40}
ScheduledActive(kwargs, sigma) ==
    LET lo == IF kwargs.start_sigma <= kwargs.end_sigma
              THEN kwargs.start_sigma ELSE kwargs.end_sigma
        hi == IF kwargs.start_sigma <= kwargs.end_sigma
              THEN kwargs.end_sigma ELSE kwargs.start_sigma
    IN  IF lo <= sigma /\ sigma <= hi THEN "child"
        ELSE IF kwargs.fallback_noise # "None" THEN "fallback" ELSE "zero"

\* lines 572-591
CompositeKwargs(i) ==
    [normalize_dst |-> get_normalize(i.normalize_src),
     normalize_src |-> get_normalize(i.normalize_dst),
     normalize_result |-> get_normalize(i.normalize_result)]

\* lines 656-679
GuidedKwargs(i) ==
    [ref_latent_normalized |-> i.normalize_ref,
     normalize_noise |-> get_normalize(i.normalize_noise),
     normalize_result |-> get_normalize(i.normalize_result)]

\* lines 718-730
RandomKwargs(i) == [normalize |-> get_normalize(i.normalize)]

\* Text is a sequence of characters.  line 1480: ffilter_custom.strip()
Blank == " "
RECURSIVE StripLeft(_)
StripLeft(text) ==
    IF text # <<>> /\ Head(text) = Blank THEN StripLeft(Tail(text)) ELSE text
RECURSIVE StripRight(_)
StripRight(text) ==
    IF text # <<>> /\ text[Len(text)] = Blank
    THEN StripRight(SubSeq(text, 1, Len(text) - 1))
    ELSE text
StripNothing(text) == text

Strip(text) == StripRight(StripLeft(text))

\* line 1488: ast.literal_eval(f"[{ffilter_custom}]") for text made of
\* digits, commas, blanks and letters.  The scanner is before an element
\* ("start"), inside a number ("num") or behind a complete element
\* ("after"); a list display allows one trailing comma, and a name is not
\* a literal.
Digits == [c \in {"1", "2"} |-> IF c = "1" THEN 1 ELSE 2]
RECURSIVE LiteralEvalList(_, _, _, _)
LiteralEvalList(text, state, cur, acc) ==
    IF text = <<>>
    THEN [err |-> "none",
          v |-> IF state = "num" THEN Append(acc, cur) ELSE acc]
    ELSE LET c == Head(text)
             rest == Tail(text)
         IN  IF c \in DOMAIN Digits
             THEN IF state = "after"
                  THEN [err |-> "SyntaxError", v |-> <<>>]
                  ELSE LiteralEvalList(rest, "num",
                          (IF state = "num" THEN 10 * cur ELSE 0) + Digits[c],
                          acc)
             ELSE IF c = Blank
             THEN IF state = "num"
                  THEN LiteralEvalList(rest, "after", 0, Append(acc, cur))
                  ELSE LiteralEvalList(rest, state, cur, acc)
             ELSE IF c = ","
             THEN IF state = "start"
                  THEN [err |-> "SyntaxError", v |-> <<>>]
                  ELSE LiteralEvalList(rest, "start", 0,
                          IF state = "num" THEN Append(acc, cur) ELSE acc)
             ELSE [err |-> IF state = "start" THEN "ValueError"
                           ELSE "SyntaxError",
                   v |-> <<>>]

\* bleh_latentutils.FILTER_PRESETS
FILTER_PRESETS == [none |-> <<>>, bandpass |-> <<5, 6>>]

\* lines 1480 and 1487-1490
BlendFilterChoose(i) ==
    LET ffilter_custom == Strip(i.ffilter_custom)
    IN  IF ffilter_custom # <<>>
        THEN LiteralEvalList(ffilter_custom, "start", 0, <<>>)
        ELSE [err |-> "none", v |-> FILTER_PRESETS[i.ffilter]]

FilterTexts ==
    {<<>>, <<" ">>, <<"1">>, <<" ", "1", " ">>, <<"1", ",", "2">>,
     <<" ", "1", ",", " ", "2", "1", ",", " ">>, <<",", "1">>,
     <<"1", " ", "2">>, <<"1", ",", ",", "2">>, <<"x">>, <<"1", ",", "x">>}
BlendFilterInputs ==
    {[normalize_result |-> nr, normalize_noise |-> nn, ffilter |-> "bandpass",
      ffilter_custom |-> <<>>] :
        nr \in NormalizeChoices, nn \in NormalizeChoices}
    \cup
    {[normalize_result |-> "default", normalize_noise |-> "default",
      ffilter |-> p, ffilter_custom |-> t] :
        p \in DOMAIN FILTER_PRESETS, t \in FilterTexts}

\* lines 1463-1504: both inputs are converted at lines 1481-1486 and then
\* once more in the call
BlendFilterKwargs(i) ==
    LET normalize_result == IF i.normalize_result = "default" THEN "None"
                            ELSE IF i.normalize_result = "forced"
                            THEN "True" ELSE "False"
        normalize_noise == IF i.normalize_noise = "default" THEN "None"
                           ELSE IF i.normalize_noise = "forced"
                           THEN "True" ELSE "False"
    IN  [ffilter |-> BlendFilterChoose(i).v,
         normalize_noise |-> get_normalize(normalize_noise),
         normalize_result |-> get_normalize(normalize_result)]

NodeGoStep(id, item_class, inputs, kwargs) ==
    /\ id \in DOMAIN NODE_CLASS_MAPPINGS
    /\ \E factor \in FactorValues :
          lastNode' = NodeItem(id, inputs, factor, item_class, kwargs)
    /\ UNCHANGED <<MODULES, NODE_CLASS_MAPPINGS, chainVars, rngVars, nlVars,
                   cnVars, ovVars>>

NodeRaiseStep(id, inputs, err) ==
    /\ id \in DOMAIN NODE_CLASS_MAPPINGS
    /\ lastNode' = NodeRaised(id, inputs, err)
    /\ UNCHANGED <<MODULES, NODE_CLASS_MAPPINGS, chainVars, rngVars, nlVars,
                   cnVars, ovVars>>

ModulatedGo ==
    \E i \in [normalize_result : NormalizeChoices,
              normalize_noise : NormalizeChoices,
              normalize_ref : BooleanInputs] :
        NodeGoStep("SonarModulatedNoise", "ModulatedNoise", i,
                   ModulatedKwargs(i))

RepeatedGo ==
    \E i \in [normalize : NormalizeChoices] :
        NodeGoStep("SonarRepeatedNoise", "RepeatedNoise", i, RepeatedKwargs(i))

ScheduledGo ==
    /\ "SonarScheduledNoise" \in DOMAIN NODE_CLASS_MAPPINGS
    /\ \E i \in ScheduledInputs, factor \in FactorValues :
          lastNode' = [NodeItem("SonarScheduledNoise", i, factor,
                                "ScheduledNoise", ScheduledKwargs(i))
                       EXCEPT !.p2s = ScheduledConversions(i)]
    /\ UNCHANGED <<MODULES, NODE_CLASS_MAPPINGS, chainVars, rngVars, nlVars,
                   cnVars, ovVars>>

\* one sampling step with the scheduled item the node built
ScheduledSample ==
    /\ lastNode.called /\ lastNode.node = "SonarScheduledNoise"
    /\ lastNode.built
    /\ lastNode.steps < MaxSteps
    /\ \E sigma \in StepSigmas :
          lastNode' = [lastNode EXCEPT
                          !.steps = @ + 1,
                          !.active = ScheduledActive(lastNode.kwargs, sigma)]
    /\ UNCHANGED <<MODULES, NODE_CLASS_MAPPINGS, chainVars, rngVars, nlVars,
                   cnVars, ovVars>>

CompositeGo ==
    \E i \in [normalize_dst : NormalizeChoices,
              normalize_src : NormalizeChoices,
              normalize_result : NormalizeChoices] :
        NodeGoStep("SonarCompositeNoise", "CompositeNoise", i,
                   CompositeKwargs(i))

GuidedGo ==
    \E i \in [normalize_noise : NormalizeChoices,
              normalize_result : NormalizeChoices,
              normalize_ref : BooleanInputs] :
        NodeGoStep("SonarGuidedNoise", "GuidedNoise", i, GuidedKwargs(i))

RandomGo ==
    \E i \in [normalize : NormalizeChoices] :
        NodeGoStep("SonarRandomNoise", "RandomNoise", i, RandomKwargs(i))

BlendFilterGo ==
    \E i \in BlendFilterInputs :
        IF BlendFilterChoose(i).err # "none"
        THEN NodeRaiseStep("SonarBlendFilterNoise", i, BlendFilterChoose(i).err)
        ELSE NodeGoStep("SonarBlendFilterNoise", "BlendFilterNoise", i,
                        BlendFilterKwargs(i))

\* ------------------------------------------------------------------------
\* The Sonar sampler nodes
\* ------------------------------------------------------------------------
\* A custom noise chain on a port is an object: an address and its items.
\* Address 0 stands for None.
NoChain == [addr |-> 0, items |-> <<>>]
ConnectedChains ==
    {[addr |-> 1, items |-> <<>>],
     [addr |-> 1, items |-> <<[factor |-> Rat(1), cls |-> "CustomNoiseItem"]>>]}
CloneObject(obj) == [addr |-> obj.addr + 1, items |-> ChainClone(obj.items)]

\* custom_noise_opt.clone() if custom_noise_opt else None
CustomNoiseAlias(custom_noise_opt) == custom_noise_opt

CustomNoiseOrNone(custom_noise_opt) ==
    IF custom_noise_opt.addr # 0 THEN CloneObject(custom_noise_opt) ELSE NoChain

\* HistoryType[momentum_init.upper()]
HistoryTypeMember(momentum_init) ==
    CASE momentum_init \in {"ZERO", "zero"} -> "HistoryType.ZERO"
      [] momentum_init \in {"RAND", "rand"} -> "HistoryType.RAND"
      [] OTHER -> "None"

\* SonarConfig(...): a field that is not passed keeps its default
SonarConfig(momentum, init, momentum_hist, direction, rand_init_noise_type, noise_type, custom_noise, guidance) ==
    [momentum |-> momentum, init |-> init, momentum_hist |-> momentum_hist,
     direction |-> direction, rand_init_noise_type |-> rand_init_noise_type,
     noise_type |-> noise_type, custom_noise |-> custom_noise,
     guidance |-> guidance]

\* samplers.KSAMPLER(sampler_function, extra_options)
KSAMPLER(sampler_function, extra_options) ==
    [sampler_function |-> sampler_function, extra_options |-> extra_options,
     inpaint_options |-> EmptyDict]

SonarLevels == {1, 2}
GuidanceInputs == {"None", "guidance"}
SonarInputs ==
    {[momentum |-> v, momentum_hist |-> 10 + v, direction |-> 20 + v,
      s_noise |-> 30 + v, eta |-> 40 + v,
      momentum_init |-> IF v = 1 THEN "ZERO" ELSE "RAND",
      rand_init_noise_type |-> IF v = 1 THEN "gaussian" ELSE "uniform",
      noise_type |-> IF v = 1 THEN "uniform" ELSE "gaussian",
      guidance_cfg_opt |-> g, custom_noise_opt |-> cn] :
        v \in SonarLevels, g \in GuidanceInputs,
        cn \in {NoChain} \cup ConnectedChains}

\* lines 1024-1052
SonarEulerSampler(i) ==
    KSAMPLER("SonarEuler.sampler",
             [s_noise |-> i.s_noise,
              sonar_config |->
                 SonarConfig(i.momentum, HistoryTypeMember(i.momentum_init),
                             i.momentum_hist, i.direction,
                             NoiseTypeMember(i.rand_init_noise_type),
                             "default", NoChain, i.guidance_cfg_opt)])

\* lines 1092-1126
SonarEulerAncestralSampler(i) ==
    KSAMPLER("SonarEulerAncestral.sampler",
             [sonar_config |->
                 SonarConfig(i.momentum, HistoryTypeMember(i.momentum_init),
                             i.momentum_hist, i.direction,
                             NoiseTypeMember(i.rand_init_noise_type),
                             NoiseTypeMember(i.noise_type),
                             CustomNoiseOrNone(i.custom_noise_opt),
                             i.guidance_cfg_opt),
              eta |-> i.eta,
              s_noise |-> i.s_noise])

\* lines 1166-1200
SonarDPMPPSDESampler(i) ==
    KSAMPLER("SonarDPMPPSDE.sampler",
             [sonar_config |->
                 SonarConfig(i.momentum, HistoryTypeMember(i.momentum_init),
                             i.momentum_hist, i.direction,
                             NoiseTypeMember(i.rand_init_noise_type),
                             NoiseTypeMember(i.noise_type),
                             CustomNoiseOrNone(i.custom_noise_opt),
                             i.guidance_cfg_opt),
              eta |-> i.eta,
              s_noise |-> i.s_noise])

SamplerNodeStep(id, inputs, descriptor) ==
    /\ id \in DOMAIN NODE_CLASS_MAPPINGS
    /\ lastNode' = [NoNode EXCEPT !.called = TRUE, !.node = id,
                                  !.inputs = inputs, !.out = descriptor]
    /\ UNCHANGED <<MODULES, NODE_CLASS_MAPPINGS, chainVars, rngVars, nlVars,
                   cnVars, ovVars>>

\* the plain Euler node has no eta, noise_type or custom_noise_opt input
SonarEulerGetSampler ==
    \E i \in {j \in SonarInputs : j.custom_noise_opt = NoChain} :
        SamplerNodeStep("SamplerSonarEuler",
                        [k \in DOMAIN i \ {"eta", "noise_type",
                                           "custom_noise_opt"} |-> i[k]],
                        SonarEulerSampler(i))

SonarEulerAncestralGetSampler ==
    \E i \in SonarInputs :
        SamplerNodeStep("SamplerSonarEulerA", i, SonarEulerAncestralSampler(i))

SonarDPMPPSDEGetSampler ==
    \E i \in SonarInputs :
        SamplerNodeStep("SamplerSonarDPMPPSDE", i, SonarDPMPPSDESampler(i))

\* ------------------------------------------------------------------------
\* Specifications.  A node keeps its inputs between executions of the
\* graph: they are drawn once, and the node may then run any number of
\* times.
\* ------------------------------------------------------------------------
DefaultNL == [noise_type |-> "gaussian", seed |-> 0,
              latent |-> Latent("strided", "float32", 1),
              multiplier |-> 1, add_to_latent |-> FALSE, repeat_batch |-> 1,
              custom_noise_opt |-> "None", mul_by_sigmas_opt |-> NoSigmas,
              model_opt |-> "None"]

DefaultCN == [custom_noise |-> "chain", seed |-> 0, cpu_noise |-> TRUE,
              normalize |-> TRUE, multiplier |-> 1,
              latent |-> Latent("strided", "float32", 1),
              batch_index |-> NoBatchIndex]

CustomNOISE(i) ==
    [custom_noise |-> "chain", seed |-> i.seed, cpu_noise |-> i.cpu_noise,
     normalize |-> i.normalize, multiplier |-> i.multiplier,
     latent |-> i.latent, batch_index |-> i.batch_index]

InitRest ==
    /\ torch_rng = BootRng
    /\ py_rng = BootRng
    /\ lastNL = NoNL
    /\ keptNL = NoNL
    /\ lastCN = NoCN

DefaultSampler ==
    [sampler_function |-> CHOOSE f \in BaseFunctions : f.name = "sample_euler",
     extra_options |-> EmptyDict, inpaint_options |-> EmptyDict]

InitOverrideIdle ==
    /\ samplerWire = DefaultSampler
    /\ lastSF = NoSF

InitNodesIdle ==
    /\ MODULES = EmptyDict
    /\ NODE_CLASS_MAPPINGS = EmptyDict
    /\ lastNode = NoNode

InitChain ==
    /\ chains = <<>>
    /\ lastGo = NoGo
    /\ nlArgs = DefaultNL
    /\ cnArgs = DefaultCN
    /\ InitRest
    /\ InitOverrideIdle
    /\ InitNodesIdle

NextChain == Go

SpecChain == InitChain /\ [][NextChain]_vars

InitNL ==
    /\ chains = <<>>
    /\ lastGo = NoGo
    /\ nlArgs \in NLInputs
    /\ cnArgs = DefaultCN
    /\ InitRest
    /\ InitOverrideIdle
    /\ InitNodesIdle

NextNL == NLCall \/ GenerateNoise

SpecNL == InitNL /\ [][NextNL]_vars

InitCN ==
    /\ chains = <<>>
    /\ lastGo = NoGo
    /\ nlArgs = DefaultNL
    /\ cnArgs \in {CustomNOISE(i) : i \in CNInputs}
    /\ InitRest
    /\ InitOverrideIdle
    /\ InitNodesIdle

NextCN == GenerateNoise

SpecCN == InitCN /\ [][NextCN]_vars

InitOverride ==
    /\ chains = <<>>
    /\ lastGo = NoGo
    /\ nlArgs = DefaultNL
    /\ cnArgs = DefaultCN
    /\ InitRest
    /\ samplerWire \in BaseSamplers
    /\ lastSF = NoSF
    /\ InitNodesIdle

NextOverride == GetSampler \/ Sample \/ SampleUnconfigured \/ SampleDirect

SpecOverride == InitOverride /\ [][NextOverride]_vars

InitNodes ==
    /\ chains = <<>>
    /\ lastGo = NoGo
    /\ nlArgs = DefaultNL
    /\ cnArgs = DefaultCN
    /\ InitRest
    /\ InitOverrideIdle
    /\ MODULES \in ModuleInputs
    /\ NODE_CLASS_MAPPINGS = EmptyDict
    /\ lastNode = NoNode

NextNodes ==
    \/ LoadModule
    \/ ModulatedGo \/ RepeatedGo \/ ScheduledGo \/ CompositeGo
    \/ GuidedGo \/ RandomGo \/ BlendFilterGo
    \/ ScheduledSample
    \/ SonarEulerGetSampler \/ SonarEulerAncestralGetSampler
    \/ SonarDPMPPSDEGetSampler

SpecNodes == InitNodes /\ [][NextNodes]_vars

\* ------------------------------------------------------------------------
\* Claims about SonarCustomNoiseNodeBase.go
\* ------------------------------------------------------------------------
\* The chain the last call was asked to build: the input chain's items
\* followed by the node's own item unless factor is 0.
Built ==
    IF lastGo.factor # 0
    THEN Append(lastGo.pre, [factor |-> <<lastGo.factor, 1>>, cls |-> lastGo.cls])
    ELSE lastGo.pre

SameRatios(a, b) ==
    /\ Len(a) = Len(b)
    /\ \A i, j \in 1..Len(a) :
          a[i].factor[1] * b[j].factor[1] * a[j].factor[2] * b[i].factor[2]
        = a[j].factor[1] * b[i].factor[1] * a[i].factor[2] * b[j].factor[2]

\* C1 (as stated): a call with factor = 0 returns a chain whose items and
\* factors are exactly those of the input chain, whatever rescale is.
C1_FactorZeroReturnsInput ==
    (lastGo.called /\ lastGo.factor = 0 /\ lastGo.out # 0)
        => chains[lastGo.out] = lastGo.pre

\* C1 (amended): a call with factor = 0 appends nothing: the returned chain
\* has the input chain's items in the same order (it is empty when no chain
\* is connected), and with rescale = 0 it also has exactly the input's
\* factors.
C1_FactorZeroAppendsNothing ==
    (lastGo.called /\ lastGo.factor = 0 /\ lastGo.out # 0)
        => /\ Classes(chains[lastGo.out]) = Classes(lastGo.pre)
           /\ lastGo.opt = 0 => chains[lastGo.out] = <<>>
           /\ lastGo.rescale = 0 => chains[lastGo.out] = lastGo.pre

C1_Witness ==
    /\ lastGo.called /\ lastGo.factor = 0 /\ lastGo.out # 0
    /\ lastGo.opt # 0 /\ Len(lastGo.pre) = 2 /\ lastGo.rescale = 0
    /\ chains[lastGo.out] = lastGo.pre

\* C2 (as stated): with rescale = 0 the built chain is returned with every
\* factor as given; with rescale = t > 0 the returned chain's factors sum
\* to t and keep the pairwise ratios of the built chain.
C2_RescaleSumsToTarget ==
    lastGo.called
        => /\ lastGo.rescale = 0 =>
                (lastGo.out # 0 /\ chains[lastGo.out] = Built)
           /\ lastGo.rescale # 0 =>
                /\ lastGo.out # 0
                /\ FactorSum(chains[lastGo.out]) = <<lastGo.rescale, 1>>
                /\ SameRatios(chains[lastGo.out], Built)

\* C2 (amended): as stated, for rescale = t > 0 only when the factors of
\* the built chain have a non-zero sum.
C2_RescaleNonZeroSum ==
    lastGo.called
        => /\ lastGo.rescale = 0 =>
                (lastGo.out # 0 /\ chains[lastGo.out] = Built)
           /\ (lastGo.rescale # 0 /\ FactorSum(Built) # <<0, 1>>) =>
                /\ lastGo.out # 0
                /\ FactorSum(chains[lastGo.out]) = <<lastGo.rescale, 1>>
                /\ SameRatios(chains[lastGo.out], Built)
                /\ Classes(chains[lastGo.out]) = Classes(Built)

\* factors [1, 1] and rescale = 4 give [2, 2]
C2_Witness ==
    /\ lastGo.called /\ lastGo.rescale = 4 /\ lastGo.out # 0
    /\ Factors(Built) = << <<1, 1>>, <<1, 1>> >>
    /\ Factors(chains[lastGo.out]) = << <<2, 1>>, <<2, 1>> >>

\* C3: a call never changes a chain that existed before it (in particular
\* the chain connected to it), and the chain it returns is a different
\* object from the connected one.
C3_SharedChainUntouched ==
    [][ lastGo'.called =>
          /\ \A i \in DOMAIN chains :
                i \in DOMAIN chains' /\ chains'[i] = chains[i]
          /\ lastGo'.opt # 0 => lastGo'.out # lastGo'.opt ]_vars

\* chain 1 feeds two sibling calls: the one that built chain 2 and the
\* last one, which appended to and rescaled its own clone.
C3_Witness ==
    /\ Len(chains) = 3 /\ chains[1] # <<>>
    /\ Len(chains[2]) > Len(chains[1])
    /\ lastGo.called /\ lastGo.opt = 1 /\ lastGo.out = 3
    /\ lastGo.factor # 0 /\ lastGo.rescale # 0
    /\ chains[3] # chains[1]

\* ------------------------------------------------------------------------
\* Claims about NoisyLatentLikeNode.go
\* ------------------------------------------------------------------------
\* a step that runs NoisyLatentLikeNode.go (the other operations record
\* their own calls)
NLStep == UNCHANGED <<cnVars, chainVars, ovVars, nodeVars>>

\* C4: whether the call returns or raises, the process-wide generators are
\* in the state they were in before the call began.
C4_RngRestored ==
    [][ NLStep => (torch_rng' = torch_rng /\ py_rng' = py_rng) ]_vars

\* a call that failed in its second sampler call, after reseeding a
\* generator that was in another state, and left that state in place
C4_Witness ==
    /\ lastNL.called /\ lastNL.err = "RuntimeError"
    /\ lastNL.reseeded /\ lastNL.draws = 2
    /\ lastNL.rngBefore # BootRng
    /\ lastNL.rngBefore # ManualSeed(nlArgs.seed)
    /\ torch_rng = lastNL.rngBefore

Qualifying(a) ==
    /\ a.multiplier = 1 /\ ~a.add_to_latent /\ a.repeat_batch = 1
    /\ ~a.mul_by_sigmas_opt.connected /\ a.model_opt = "None"

\* C5: two calls with the same inputs (multiplier 1, add_to_latent off,
\* repeat_batch 1, no sigmas, no model) return identical tensors, whatever
\* the generator state before each call and whatever ran in between.
C5_SameInputsSameOutput ==
    (/\ keptNL.called /\ keptNL.err = "none"
     /\ lastNL.called /\ lastNL.err = "none"
     /\ Qualifying(nlArgs))
        => keptNL.out = lastNL.out

C5_Witness ==
    /\ keptNL.called /\ keptNL.err = "none"
    /\ lastNL.called /\ lastNL.err = "none"
    /\ Qualifying(nlArgs)
    /\ keptNL.rngBefore # lastNL.rngBefore
    /\ Len(lastNL.out) = 2
    /\ keptNL.out = lastNL.out

\* C6 (as stated): the configuration error is raised whenever sigmas are
\* connected and no model is, before the sampler is built, the generator
\* reseeded or noise drawn; without sigmas it is never raised.
C6_ErrorWheneverSigmasNoModel ==
    lastNL.called
        => /\ (nlArgs.mul_by_sigmas_opt.connected /\ nlArgs.model_opt = "None")
                => (/\ lastNL.err = "ValueError" /\ ~lastNL.built
                    /\ ~lastNL.reseeded /\ lastNL.draws = 0)
           /\ ~nlArgs.mul_by_sigmas_opt.connected => lastNL.err # "ValueError"

\* C6 (amended): the configuration error is raised exactly when a non-empty
\* sigma schedule is connected and no model is, and then nothing has been
\* built, reseeded or drawn.
C6_ErrorWhenNonEmptySigmasNoModel ==
    lastNL.called
        => /\ lastNL.err = "ValueError"
                <=> (/\ nlArgs.mul_by_sigmas_opt.connected
                     /\ Len(nlArgs.mul_by_sigmas_opt.v) > 0
                     /\ nlArgs.model_opt = "None")
           /\ lastNL.err = "ValueError"
                => (~lastNL.built /\ ~lastNL.reseeded /\ lastNL.draws = 0
                    /\ lastNL.out = <<>>)

C6_Witness ==
    /\ lastNL.called /\ lastNL.err = "ValueError"
    /\ nlArgs.repeat_batch = 2 /\ Len(nlArgs.mul_by_sigmas_opt.v) = 2
    /\ ~lastNL.built /\ lastNL.draws = 0

\* ------------------------------------------------------------------------
\* Claims about CustomNOISE
\* ------------------------------------------------------------------------
\* C7: with multiplier 0, generate_noise returns zeros with the latent's
\* shape, dtype and layout, calls no sampler, and leaves both generators
\* seeded from seed.
C7_ZeroMultiplier ==
    (lastCN.called /\ cnArgs.multiplier = 0)
        => /\ lastCN.err = "none"
           /\ lastCN.log = <<>>
           /\ lastCN.out.layout = cnArgs.latent.layout
           /\ lastCN.out.dtype = cnArgs.latent.dtype
           /\ Len(lastCN.out.data) = Len(cnArgs.latent.examples)
           /\ \A i \in DOMAIN lastCN.out.data : lastCN.out.data[i] = ZeroElem
           /\ torch_rng = ManualSeed(cnArgs.seed)
           /\ py_rng = ManualSeed(cnArgs.seed)

C7_Witness ==
    /\ lastCN.called /\ cnArgs.multiplier = 0
    /\ cnArgs.batch_index.present
    /\ cnArgs.latent.layout = "sparse_coo" /\ cnArgs.latent.dtype = "float16"
    /\ Len(lastCN.out.data) = 2
    /\ lastCN.torchBefore = BootRng /\ torch_rng # BootRng /\ py_rng # BootRng

\* C8: with batch indices b and a non-zero multiplier, the output has one
\* position per entry of b, and position p holds the noise sampled with
\* seed + b[p] against source example b[p] modulo the batch size; equal
\* indices give identical noise.
C8_BatchIndexNoise ==
    (/\ lastCN.called /\ lastCN.err = "none"
     /\ cnArgs.batch_index.present /\ cnArgs.multiplier # 0)
        => LET b == cnArgs.batch_index.v
               n == Len(cnArgs.latent.examples)
               out == lastCN.out.data
           IN  /\ Len(out) = Len(b)
               /\ \A p \in DOMAIN b :
                     /\ out[p].core.seed = cnArgs.seed + b[p]
                     /\ out[p].core.example = cnArgs.latent.examples[(b[p] % n) + 1]
                     /\ \E k \in DOMAIN lastCN.log :
                           /\ lastCN.log[k].seed = cnArgs.seed + b[p]
                           /\ lastCN.log[k].ret.data = <<out[p]>>
               /\ \A p, q \in DOMAIN b : b[p] = b[q] => out[p] = out[q]

C8_Witness ==
    /\ lastCN.called /\ lastCN.err = "none"
    /\ cnArgs.batch_index = [present |-> TRUE, v |-> <<0, 0, 1>>]
    /\ cnArgs.multiplier = 2 /\ Len(cnArgs.latent.examples) = 2
    /\ Len(lastCN.out.data) = 3
    /\ lastCN.out.data[1] = lastCN.out.data[2]
    /\ lastCN.out.data[3].core.seed = cnArgs.seed + 1
    /\ lastCN.out.data[3] # lastCN.out.data[1]

\* C9: for every non-zero multiplier m and every sample that does not
\* fail, the tensor returned is m times the sampled noise (the sampled
\* noise itself for m = 1), also when it was converted to sparse.
C9_MultiplierAppliedLast ==
    (lastCN.called /\ cnArgs.multiplier # 0)
        => \A k \in DOMAIN lastCN.log :
              lastCN.log[k].err = "none"
                => lastCN.log[k].ret.data =
                     IF cnArgs.multiplier = 1
                     THEN lastCN.log[k].raw.data
                     ELSE [i \in DOMAIN lastCN.log[k].raw.data |->
                            Apply(lastCN.log[k].raw.data[i],
                                  Op("mul", cnArgs.multiplier, NoSigma, "None"))]

SparseLayouts == {"sparse_coo", "sparse_csr"}

\* C10 (as stated): equal layouts: no conversion, no error; different and
\* the target sparse: converted to sparse; different and the target not
\* sparse: unsupported-layout error and no tensor.
C10_LayoutAnySparse ==
    \A k \in DOMAIN lastCN.log :
        LET c == lastCN.log[k]
        IN  /\ c.raw.layout = c.target
                => (c.err = "none" /\ c.ret.layout = c.raw.layout)
            /\ (c.raw.layout # c.target /\ c.target \in SparseLayouts)
                => (c.err = "none" /\ c.ret.layout \in SparseLayouts)
            /\ (c.raw.layout # c.target /\ c.target \notin SparseLayouts)
                => (c.err = "NotImplementedError" /\ c.ret = NoTensor)

\* C10 (amended): equal layouts: no conversion, no error; different and the
\* target sparse COO: converted to sparse COO; different and the target
\* any other layout: unsupported-layout error and no tensor.
C10_LayoutSparseCoo ==
    \A k \in DOMAIN lastCN.log :
        LET c == lastCN.log[k]
        IN  /\ c.raw.layout = c.target
                => (c.err = "none" /\ c.ret.layout = c.raw.layout)
            /\ (c.raw.layout # c.target /\ c.target = "sparse_coo")
                => (/\ c.err = "none" /\ c.ret.layout = "sparse_coo"
                    /\ c.ret.data = c.raw.data)
            /\ (c.raw.layout # c.target /\ c.target # "sparse_coo")
                => (/\ c.err = "NotImplementedError" /\ c.ret = NoTensor
                    /\ lastCN.err = "NotImplementedError"
                    /\ lastCN.out = NoTensor)

\* a strided sample for a sparse COO latent, converted, in a call that
\* sampled twice
C10_Witness ==
    /\ lastCN.called /\ lastCN.err = "none" /\ Len(lastCN.log) = 2
    /\ lastCN.log[2].raw.layout = "strided"
    /\ lastCN.log[2].target = "sparse_coo"
    /\ lastCN.log[2].step = "to_sparse"
    /\ lastCN.out.layout = "sparse_coo"

\* ------------------------------------------------------------------------
\* SamplerNodeConfigOverride.sampler_function
\* ------------------------------------------------------------------------
ConfigMissingError == "ValueError: Override sampler config missing!"
OverrideFrames ==
    {k \in DOMAIN lastSF.frames :
        lastSF.frames[k].fn = OverrideFunction.name}
\* the frames of sampler_function that reached the call of the wrapped
\* step function
ForwardingFrames == {k \in OverrideFrames : lastSF.frames[k].called}

\* C11: for each k of s_noise, eta, s_churn, r, solver_type, the wrapped
\* step function is passed the configured value of k when it declares a
\* parameter k; when it declares none, k is passed only if the caller had
\* passed it, with the caller's value, and the call does not raise.
C11_OverridesOnlyDeclared ==
    \A n \in ForwardingFrames :
        LET f == lastSF.frames[n]
            cfg == f.received["override_sampler_cfg"]
        IN  \A k \in {"s_noise", "eta", "s_churn", "r", "solver_type"} :
                /\ k \in f.wrapped.params
                    => (k \in DOMAIN f.passed /\ f.passed[k] = cfg[k])
                /\ k \notin f.wrapped.params
                    => /\ f.err = "none"
                       /\ k \in DOMAIN f.passed
                            => (/\ k \in DOMAIN f.received
                                /\ f.passed[k] = f.received[k])

\* euler ancestral declares eta and s_noise but not r: the configured eta
\* and s_noise arrive, s_noise replacing the value the host had, r does not
C11_Witness ==
    /\ lastSF.called /\ lastSF.via = "host" /\ lastSF.err = "none"
    /\ Len(lastSF.frames) = 2
    /\ lastSF.frames[1].called
    /\ lastSF.frames[1].wrapped.name = "sample_euler_ancestral"
    /\ "s_noise" \in DOMAIN lastSF.frames[1].received
    /\ lastSF.frames[1].received["s_noise"] = 7
    /\ lastSF.frames[1].passed["s_noise"] = 12
    /\ lastSF.frames[1].passed["eta"] = 2
    /\ "r" \notin DOMAIN lastSF.frames[1].passed
    /\ lastSF.frames[2].received = lastSF.frames[1].passed

\* C12: an invocation of sampler_function that is given no override
\* configuration, or an empty one, ends in the configuration-missing error,
\* having built no noise sampler and called no step function.
C12_MissingConfigRaisesFirst ==
    \A n \in OverrideFrames :
        LET f == lastSF.frames[n]
        IN  (\/ "override_sampler_cfg" \notin DOMAIN f.received
             \/ DOMAIN f.received["override_sampler_cfg"] = {})
            => /\ f.err = ConfigMissingError
               /\ f.built = "None"
               /\ ~f.called
               /\ n = Len(lastSF.frames)
               /\ lastSF.err = ConfigMissingError

\* an invocation with an empty configuration
C12_Witness ==
    /\ lastSF.called /\ lastSF.via = "direct"
    /\ Len(lastSF.frames) = 1
    /\ "override_sampler_cfg" \in DOMAIN lastSF.frames[1].received
    /\ DOMAIN lastSF.frames[1].received["override_sampler_cfg"] = {}
    /\ lastSF.frames[1].err = ConfigMissingError
    /\ ~lastSF.frames[1].called

\* C13: the host invoking the step function of a descriptor that
\* get_sampler returned, with the descriptor's extra_options as keyword
\* arguments, never ends in the configuration-missing error, whatever the
\* nesting depth of the descriptor.
C13_ConfigErrorUnreachable ==
    (lastSF.called /\ lastSF.via = "host") => lastSF.err # ConfigMissingError

\* C14: the noise sampler of the call is the one built from the configured
\* custom noise when there is one, else the one built from the configured
\* noise type when there is one, else the one the caller supplied; it is
\* passed to the wrapped function exactly when that function declares a
\* noise_sampler parameter.
C14_NoiseSamplerPrecedence ==
    \A n \in ForwardingFrames :
        LET f == lastSF.frames[n]
            cfg == f.received["override_sampler_cfg"]
            ns == f.noise_sampler
        IN  /\ cfg.custom_noise # "None"
                => (/\ ns.src = cfg.custom_noise /\ f.built = cfg.custom_noise
                    /\ ns.normalized = cfg.normalize /\ ns.cpu = cfg.cpu_noise)
            /\ (cfg.custom_noise = "None" /\ cfg.noise_type # "None")
                => (/\ ns.src = "registry" /\ ns.noise_type = cfg.noise_type
                    /\ f.built = "registry"
                    /\ ns.normalized = cfg.normalize /\ ns.cpu = cfg.cpu_noise)
            /\ (cfg.custom_noise = "None" /\ cfg.noise_type = "None")
                => (ns = BoundNoiseSampler(f.received) /\ f.built = "None")
            /\ "noise_sampler" \in DOMAIN f.passed
                <=> "noise_sampler" \in f.wrapped.params
            /\ "noise_sampler" \in DOMAIN f.passed
                => f.passed["noise_sampler"] = ns

\* custom noise and a noise type both configured, over a sampler the host
\* had supplied, for a step function that declares noise_sampler
C14_Witness ==
    /\ lastSF.called /\ lastSF.via = "host" /\ Len(lastSF.frames) = 2
    /\ lastSF.frames[1].called
    /\ lastSF.frames[1].received["override_sampler_cfg"].custom_noise = "chain"
    /\ lastSF.frames[1].received["override_sampler_cfg"].noise_type
          = "GAUSSIAN"
    /\ "noise_sampler" \in DOMAIN lastSF.frames[1].received
    /\ lastSF.frames[1].received["noise_sampler"] = HostSampler
    /\ "noise_sampler" \in lastSF.frames[1].wrapped.params
    /\ lastSF.frames[1].passed["noise_sampler"].src = "chain"
    /\ lastSF.frames[2].received["noise_sampler"].src = "chain"

\* ------------------------------------------------------------------------
\* The registration table after module load
\* ------------------------------------------------------------------------
Loaded == DOMAIN NODE_CLASS_MAPPINGS # {}
Registered(id) == id \in DOMAIN NODE_CLASS_MAPPINGS
Available(plugin) == plugin \in DOMAIN MODULES
WrapperExposed == Available("restart") /\ "RestartSampler" \in MODULES["restart"]
UnconditionalIds ==
    {"SamplerSonarEuler", "SamplerSonarEulerA", "SamplerSonarDPMPPSDE",
     "SonarGuidanceConfig", "SamplerConfigOverride", "NoisyLatentLike",
     "SonarCustomNoise", "SonarCompositeNoise", "SonarModulatedNoise",
     "SonarRepeatedNoise", "SonarScheduledNoise", "SonarGuidedNoise",
     "SonarRandomNoise", "SONAR_CUSTOM_NOISE to NOISE"}

\* C15 (as stated): after load, SonarBlendFilterNoise is registered iff
\* "bleh" is available, KRestartSamplerCustomNoise and
\* RestartSamplerCustomNoise are each registered iff "restart" is
\* available, and the 14 unconditional ids are registered.
C15_ConditionalByPluginOnly ==
    Loaded =>
        /\ Registered("SonarBlendFilterNoise") <=> Available("bleh")
        /\ Registered("KRestartSamplerCustomNoise") <=> Available("restart")
        /\ Registered("RestartSamplerCustomNoise") <=> Available("restart")
        /\ UnconditionalIds \subseteq DOMAIN NODE_CLASS_MAPPINGS

\* C15 (amended): after load, SonarBlendFilterNoise is registered iff
\* "bleh" is available, KRestartSamplerCustomNoise iff "restart" is
\* available, RestartSamplerCustomNoise iff "restart" is available and
\* exposes the RestartSampler wrapper type, and the 14 unconditional ids
\* are registered, and nothing else is.
C15_ConditionalByPluginAndWrapper ==
    Loaded =>
        /\ Registered("SonarBlendFilterNoise") <=> Available("bleh")
        /\ Registered("KRestartSamplerCustomNoise") <=> Available("restart")
        /\ Registered("RestartSamplerCustomNoise") <=> WrapperExposed
        /\ UnconditionalIds \subseteq DOMAIN NODE_CLASS_MAPPINGS
        /\ DOMAIN NODE_CLASS_MAPPINGS \subseteq
              UnconditionalIds \cup {"SonarBlendFilterNoise",
                                     "KRestartSamplerCustomNoise",
                                     "RestartSamplerCustomNoise"}

\* loaded with "bleh" absent and "restart" present with its wrapper type
C15_Witness ==
    /\ Loaded
    /\ ~Available("bleh") /\ WrapperExposed
    /\ ~Registered("SonarBlendFilterNoise")
    /\ Registered("KRestartSamplerCustomNoise")
    /\ Registered("RestartSamplerCustomNoise")
    /\ Cardinality(DOMAIN NODE_CLASS_MAPPINGS) = 16

\* C16: RestartSamplerCustomNoise is registered iff "restart" is available
\* and its restart_sampling namespace exposes RestartSampler; when the
\* plugin is available without that type, KRestartSamplerCustomNoise is
\* registered and RestartSamplerCustomNoise is not.
C16_RestartWrapperGate ==
    Loaded =>
        /\ Registered("RestartSamplerCustomNoise")
            <=> (Available("restart")
                 /\ "RestartSampler" \in MODULES["restart"])
        /\ (Available("restart")
            /\ "RestartSampler" \notin MODULES["restart"])
            => (/\ Registered("KRestartSamplerCustomNoise")
                /\ ~Registered("RestartSamplerCustomNoise"))

\* loaded with "restart" available without the wrapper type
C16_Witness ==
    /\ Loaded
    /\ Available("restart") /\ "RestartSampler" \notin MODULES["restart"]
    /\ NODE_CLASS_MAPPINGS["KRestartSamplerCustomNoise"]
          = "KRestartSamplerCustomNoise"
    /\ ~Registered("RestartSamplerCustomNoise")

\* ------------------------------------------------------------------------
\* Normalization flags handed to the noise variants
\* ------------------------------------------------------------------------
\* the flag a three-valued input stands for
NormalizeFlag(choice) ==
    CASE choice = "default" -> "None"
      [] choice = "forced" -> "True"
      [] choice = "disabled" -> "False"
Ran(node) == lastNode.called /\ lastNode.node = node /\ lastNode.built
FlagFollows(flag, input) ==
    lastNode.kwargs[flag] = NormalizeFlag(lastNode.inputs[input])

\* C17: the composite variant gets its destination flag from normalize_dst,
\* its source flag from normalize_src and its result flag from
\* normalize_result, each a function of that one input alone.
C17_CompositeFlagsNotCrossed ==
    Ran("SonarCompositeNoise") =>
        /\ FlagFollows("normalize_dst", "normalize_dst")
        /\ FlagFollows("normalize_src", "normalize_src")
        /\ FlagFollows("normalize_result", "normalize_result")

\* C18: every three-valued normalize input of the modulated, repeated,
\* scheduled, guided and random-mix nodes reaches the variant as absent for
\* "default", true for "forced" and false for "disabled".
C18_ThreeValuedFlags ==
    /\ Ran("SonarModulatedNoise") =>
          /\ FlagFollows("normalize_result", "normalize_result")
          /\ FlagFollows("normalize_noise", "normalize_noise")
    /\ Ran("SonarRepeatedNoise") => FlagFollows("normalize", "normalize")
    /\ Ran("SonarScheduledNoise") => FlagFollows("normalize", "normalize")
    /\ Ran("SonarGuidedNoise") =>
          /\ FlagFollows("normalize_noise", "normalize_noise")
          /\ FlagFollows("normalize_result", "normalize_result")
    /\ Ran("SonarRandomNoise") => FlagFollows("normalize", "normalize")

\* the guided node with its noise flag forced and its result flag disabled
C18_Witness ==
    /\ Ran("SonarGuidedNoise")
    /\ lastNode.item_class = "GuidedNoise"
    /\ lastNode.inputs.normalize_noise = "forced"
    /\ lastNode.inputs.normalize_result = "disabled"
    /\ lastNode.kwargs.normalize_noise = "True"
    /\ lastNode.kwargs.normalize_result = "False"

\* C19: the modulated variant gets the boolean normalize_ref as it was
\* given: true for true, false for false.
C19_ModulatedRefPassedThrough ==
    Ran("SonarModulatedNoise") =>
        lastNode.kwargs.normalize_ref = lastNode.inputs.normalize_ref

\* C20: the blend-filter variant gets, for normalize_noise and for
\* normalize_result independently, absent for "default", true for "forced"
\* and false for "disabled".
C20_BlendFilterFlags ==
    Ran("SonarBlendFilterNoise") =>
        /\ FlagFollows("normalize_noise", "normalize_noise")
        /\ FlagFollows("normalize_result", "normalize_result")

\* ------------------------------------------------------------------------
\* SonarBlendFilterNoiseNode.go: the custom filter text
\* ------------------------------------------------------------------------
AllBlank(text) == \A k \in DOMAIN text : text[k] = " "
\* the text without its leading and trailing blanks
Trimmed(text) ==
    IF AllBlank(text) THEN <<>>
    ELSE LET first == CHOOSE k \in DOMAIN text :
                        text[k] # " " /\ \A j \in 1..(k - 1) : text[j] = " "
             last == CHOOSE k \in DOMAIN text :
                        text[k] # " "
                        /\ \A j \in (k + 1)..Len(text) : text[j] = " "
         IN  SubSeq(text, first, last)
RanBlendFilter == lastNode.called /\ lastNode.node = "SonarBlendFilterNoise"

\* C21: the custom filter text is trimmed first; non-empty trimmed text is
\* parsed as a comma-separated list which becomes the filter whatever the
\* preset; empty or blank-only text selects the preset's coefficients;
\* text that does not parse fails with a parse error and nothing is
\* returned.
C21_CustomFilterText ==
    RanBlendFilter =>
        LET i == lastNode.inputs
            parsed == LiteralEvalList(Trimmed(i.ffilter_custom), "start", 0, <<>>)
        IN  /\ AllBlank(i.ffilter_custom)
                => /\ lastNode.err = "none"
                   /\ lastNode.built
                        => lastNode.kwargs.ffilter = FILTER_PRESETS[i.ffilter]
            /\ (~AllBlank(i.ffilter_custom) /\ parsed.err = "none")
                => /\ lastNode.err = "none"
                   /\ lastNode.built => lastNode.kwargs.ffilter = parsed.v
            /\ (~AllBlank(i.ffilter_custom) /\ parsed.err # "none")
                => /\ lastNode.err \in {"SyntaxError", "ValueError"}
                   /\ ~lastNode.built
                   /\ lastNode.kwargs = EmptyDict

\* " 1, 21, " with the bandpass preset selected: the list [1, 21] is used
C21_Witness ==
    /\ RanBlendFilter /\ lastNode.built
    /\ lastNode.inputs.ffilter = "bandpass"
    /\ lastNode.inputs.ffilter_custom
          = <<" ", "1", ",", " ", "2", "1", ",", " ">>
    /\ lastNode.kwargs.ffilter = <<1, 21>>

\* ------------------------------------------------------------------------
\* SonarScheduledNoiseNode.go: the sigma window
\* ------------------------------------------------------------------------
\* C22: go converts start_percent and end_percent once each, through the
\* percent-to-sigma mapping of the connected model; the item it builds
\* holds start_sigma from start_percent and end_sigma from end_percent; the
\* sampling steps taken with the item add no conversion.
C22_SigmasConvertedOnce ==
    (lastNode.called /\ lastNode.node = "SonarScheduledNoise") =>
        LET i == lastNode.inputs
        IN  /\ Len(lastNode.p2s) = 2
            /\ lastNode.p2s[1] = [model |-> i.model, percent |-> i.start_percent]
            /\ lastNode.p2s[2] = [model |-> i.model, percent |-> i.end_percent]
            /\ lastNode.built
                => /\ lastNode.kwargs.start_sigma
                        = PercentToSigma(i.model, i.start_percent)
                   /\ lastNode.kwargs.end_sigma
                        = PercentToSigma(i.model, i.end_percent)

\* an item built for 20%..100% of modelA, two sampling steps later, the
\* second outside the window
C22_Witness ==
    /\ Ran("SonarScheduledNoise")
    /\ lastNode.inputs.model = "modelA"
    /\ lastNode.inputs.start_percent = 20
    /\ lastNode.inputs.end_percent = 100
    /\ lastNode.kwargs.start_sigma = 10
    /\ lastNode.kwargs.end_sigma = 0
    /\ lastNode.steps = 2
    /\ lastNode.active = "zero"
    /\ Len(lastNode.p2s) = 2

\* ------------------------------------------------------------------------
\* The descriptors of the Sonar sampler nodes
\* ------------------------------------------------------------------------
SonarNodes ==
    [SamplerSonarEuler |-> "SonarEuler.sampler",
     SamplerSonarEulerA |-> "SonarEulerAncestral.sampler",
     SamplerSonarDPMPPSDE |-> "SonarDPMPPSDE.sampler"]
RanSonar == lastNode.called /\ lastNode.node \in DOMAIN SonarNodes

\* C23: each Sonar sampler node returns a descriptor of its own step
\* function whose options hold a SonarConfig with momentum, momentum_hist,
\* init, direction, rand_init_noise_type and guidance taken from the
\* inputs; for EulerA and DPMPPSDE the config's custom noise is a clone of
\* the connected chain, or absent when none is connected, and eta and
\* s_noise are in the options.
C23_SonarDescriptors ==
    RanSonar =>
        LET i == lastNode.inputs
            d == lastNode.out
            cfg == d.extra_options["sonar_config"]
        IN  /\ d.sampler_function = SonarNodes[lastNode.node]
            /\ cfg.momentum = i.momentum
            /\ cfg.momentum_hist = i.momentum_hist
            /\ cfg.direction = i.direction
            /\ cfg.init = IF i.momentum_init = "ZERO"
                          THEN "HistoryType.ZERO" ELSE "HistoryType.RAND"
            /\ cfg.rand_init_noise_type
                  = (IF i.rand_init_noise_type = "gaussian"
                     THEN "GAUSSIAN" ELSE "UNIFORM")
            /\ cfg.guidance = i.guidance_cfg_opt
            /\ d.extra_options["s_noise"] = i.s_noise
            /\ lastNode.node # "SamplerSonarEuler"
                => /\ d.extra_options["eta"] = i.eta
                   /\ i.custom_noise_opt = NoChain
                        => cfg.custom_noise = NoChain
                   /\ i.custom_noise_opt # NoChain
                        => /\ cfg.custom_noise.addr # 0
                           /\ cfg.custom_noise.addr # i.custom_noise_opt.addr
                           /\ cfg.custom_noise.items = i.custom_noise_opt.items

\* the DPM++ SDE node with a one-item chain and a guidance config connected
C23_Witness ==
    /\ RanSonar /\ lastNode.node = "SamplerSonarDPMPPSDE"
    /\ lastNode.inputs.custom_noise_opt.addr = 1
    /\ Len(lastNode.inputs.custom_noise_opt.items) = 1
    /\ lastNode.inputs.guidance_cfg_opt = "guidance"
    /\ lastNode.out.sampler_function = "SonarDPMPPSDE.sampler"
    /\ lastNode.out.extra_options["sonar_config"].custom_noise.addr = 2
    /\ lastNode.out.extra_options["sonar_config"].momentum = 2
    /\ lastNode.out.extra_options["eta"] = 42

\* ------------------------------------------------------------------------
\* NoisyLatentLikeNode.go: noise source and batch repetition
\* ------------------------------------------------------------------------
\* C24: with custom noise connected, every sample comes from the sampler
\* built from the custom noise, none from the registry sampler of
\* noise_type, and the call returns the same tensor for every value of
\* noise_type, all other inputs and the generator state being equal.
C24_NoiseTypeIgnoredWithCustom ==
    (/\ lastNL.called /\ lastNL.err = "none"
     /\ nlArgs.custom_noise_opt # "None")
        => /\ \A p \in DOMAIN lastNL.out :
                /\ lastNL.out[p].core.src = nlArgs.custom_noise_opt
                /\ lastNL.out[p].core.noise_type = "none"
           /\ \A nt \in NoiseTypes :
                NoisyLatentLikeGo([nlArgs EXCEPT !.noise_type = nt],
                                  lastNL.rngBefore, 0).rec.out = lastNL.out

\* custom noise connected while noise_type is "uniform"
C24_Witness ==
    /\ lastNL.called /\ lastNL.err = "none"
    /\ nlArgs.custom_noise_opt = "chain"
    /\ nlArgs.noise_type = "uniform"
    /\ Len(lastNL.out) = 2
    /\ lastNL.out[2].core.src = "chain"

\* what a call that returned must have done, given its inputs a
NLRepeated(rec, a) ==
    LET B == Len(a.latent.examples)
    IN  /\ rec.draws = a.repeat_batch
        /\ rec.reseeded
        /\ Len(rec.out) = a.repeat_batch * B
        /\ \A p \in DOMAIN rec.out :
              /\ rec.out[p].core.rng
                    = [seed |-> a.seed, pos |-> (p - 1) \div B]
              /\ rec.out[p].core.example = a.latent.examples[((p - 1) % B) + 1]
              /\ a.add_to_latent
                    => rec.out[p].ops[Len(rec.out[p].ops)]
                          = Op("add", a.latent.examples[((p - 1) % B) + 1],
                               NoSigma, "None")
              /\ ~a.add_to_latent
                    => \A k \in DOMAIN rec.out[p].ops :
                          rec.out[p].ops[k].op # "add"

\* C26: a call with repeat_batch >= 1 that returns has invoked the sampler
\* exactly repeat_batch times, each on the generator as reseeded from seed
\* and advanced by the earlier invocations, and the generator is back in
\* its earlier state afterwards; the result has repeat_batch times the
\* reference batch size; with add_to_latent, position p has reference
\* sample p modulo the reference batch size added; the reference latent is
\* unchanged.
C26_RepeatBatch ==
    [][ (/\ lastNL' # lastNL
         /\ lastNL'.called /\ lastNL'.err = "none"
         /\ nlArgs.repeat_batch >= 1)
            => /\ NLRepeated(lastNL', nlArgs)
               /\ torch_rng' = torch_rng
               /\ nlArgs'.latent = nlArgs.latent ]_vars

\* two repetitions over a batch of two, added to the latent
C26_Witness ==
    /\ lastNL.called /\ lastNL.err = "none"
    /\ nlArgs.repeat_batch = 2 /\ nlArgs.add_to_latent
    /\ Len(nlArgs.latent.examples) = 2
    /\ lastNL.draws = 2
    /\ Len(lastNL.out) = 4
    /\ lastNL.out[3].ops[Len(lastNL.out[3].ops)].n = nlArgs.latent.examples[1]
    /\ lastNL.out[3].core.rng = [seed |-> nlArgs.seed, pos |-> 1]

\* ------------------------------------------------------------------------
\* CustomNOISE.generate_noise: the loop over batch indices
\* ------------------------------------------------------------------------
RECURSIVE SeqMax(_)
SeqMax(b) ==
    IF Len(b) = 1 THEN b[1]
    ELSE LET m == SeqMax(Tail(b)) IN IF b[1] >= m THEN b[1] ELSE m

\* C27: with batch indices b and a non-zero multiplier, one sample is
\* drawn for each index 0..max(b) in increasing order, referenced by a
\* position or not; position p of the result holds the sample drawn for
\* index b[p], and nothing else is in the result.
C27_EveryIndexSampled ==
    (/\ lastCN.called /\ lastCN.err = "none"
     /\ cnArgs.batch_index.present /\ cnArgs.multiplier # 0)
        => LET b == cnArgs.batch_index.v
               out == lastCN.out.data
           IN  /\ Len(lastCN.log) = SeqMax(b) + 1
               /\ \A k \in DOMAIN lastCN.log :
                     /\ lastCN.log[k].seed = cnArgs.seed + (k - 1)
                     /\ lastCN.log[k].raw.data[1].core.rng
                           = [seed |-> cnArgs.seed, pos |-> k - 1]
               /\ Len(out) = Len(b)
               /\ \A p \in DOMAIN b :
                     <<out[p]>> = lastCN.log[b[p] + 1].ret.data

\* indices [2, 0, 2]: three samples drawn, the one for index 1 dropped
C27_Witness ==
    /\ lastCN.called /\ lastCN.err = "none"
    /\ cnArgs.batch_index = [present |-> TRUE, v |-> <<2, 0, 2>>]
    /\ cnArgs.multiplier = 2 /\ Len(cnArgs.latent.examples) = 2
    /\ Len(lastCN.log) = 3
    /\ Len(lastCN.out.data) = 3
    /\ <<lastCN.out.data[1]>> = lastCN.log[3].ret.data
    /\ <<lastCN.out.data[2]>> = lastCN.log[1].ret.data
    /\ \A p \in 1..3 : <<lastCN.out.data[p]>> # lastCN.log[2].ret.data

\* ------------------------------------------------------------------------
\* The sigma bounds handed to a noise-sampler builder
\* ------------------------------------------------------------------------

NonIncreasing(s) == \A i \in 1..(Len(s) - 1) : s[i] >= s[i + 1]

\* C25: when NoisyLatentLikeNode.go is given a monotonically non-increasing
\* schedule of more than one sigma, the noise sampler it builds was given
\* sigma_min <= sigma_max.
C25_SigmaBoundsOrdered ==
    (/\ lastNL.called /\ lastNL.err = "none"
     /\ nlArgs.mul_by_sigmas_opt.connected
     /\ Len(nlArgs.mul_by_sigmas_opt.v) > 1
     /\ NonIncreasing(nlArgs.mul_by_sigmas_opt.v))
        => \A p \in DOMAIN lastNL.out :
              lastNL.out[p].core.sigma_min <= lastNL.out[p].core.sigma_max

\* ------------------------------------------------------------------------
\* SamplerNodeConfigOverride.get_sampler: the descriptor it builds
\* ------------------------------------------------------------------------

\* the override configuration holds the inputs a and the wrapped descriptor
CfgHolds(cfg, a, wrapped) ==
    /\ DOMAIN cfg = {"sampler", "noise_type", "custom_noise", "s_noise",
                     "eta", "s_churn", "r", "solver_type", "cpu_noise",
                     "normalize"}
    /\ cfg.sampler = wrapped
    /\ cfg.noise_type = NoiseTypeMember(a.noise_type)
    /\ cfg.custom_noise = a.custom_noise_opt
    /\ cfg.s_noise = a.s_noise /\ cfg.eta = a.eta
    /\ cfg.s_churn = a.s_churn /\ cfg.r = a.r
    /\ cfg.solver_type = a.sde_solver
    /\ cfg.cpu_noise = a.cpu_noise /\ cfg.normalize = a.normalize

\* C28: a step of get_sampler yields a new descriptor whose extra_options
\* hold every key of the wrapped descriptor's extra_options other than
\* override_sampler_cfg with the same value, plus override_sampler_cfg with
\* the node's inputs and the wrapped descriptor as it was before the step
\* (its extra_options and inpaint_options with the same keys and values);
\* the inpaint_options are those of the wrapped descriptor.
C28_GetSamplerWrapsUnchanged ==
    [][samplerWire' # samplerWire =>
        LET old == samplerWire
            new == samplerWire'
        IN  /\ new.sampler_function = OverrideFunction
            /\ DOMAIN new.extra_options
                  = DOMAIN old.extra_options \cup {"override_sampler_cfg"}
            /\ \A k \in DOMAIN old.extra_options \ {"override_sampler_cfg"} :
                  new.extra_options[k] = old.extra_options[k]
            /\ \E a \in GetSamplerInputs :
                  CfgHolds(new.extra_options["override_sampler_cfg"], a, old)
            /\ new.extra_options["override_sampler_cfg"].sampler.extra_options
                  = old.extra_options
            /\ new.extra_options["override_sampler_cfg"].sampler.inpaint_options
                  = old.inpaint_options
            /\ new.inpaint_options = old.inpaint_options]_vars

\* an override over an override over a descriptor with extra options of its
\* own: the outer configuration differs from the inner one, which is kept
\* inside the wrapped descriptor
C28_Witness ==
    /\ Depth(samplerWire) = 2
    /\ "s_noise" \in DOMAIN samplerWire.extra_options
    /\ samplerWire.extra_options["s_noise"] = 7
    /\ LET cfg == samplerWire.extra_options["override_sampler_cfg"]
           inner == cfg.sampler.extra_options["override_sampler_cfg"]
       IN  /\ cfg.eta = 2 /\ inner.eta = 1
           /\ cfg.sampler.extra_options["s_noise"] = 7
           /\ inner.sampler.extra_options["s_noise"] = 7

\* ------------------------------------------------------------------------
\* SamplerNodeConfigOverride.sampler_function: what it forwards
\* ------------------------------------------------------------------------

\* the wrapped function receives model, x, sigmas and the extra positional
\* arguments as they came in, and every entry of **kwargs whose name is not
\* one of KWARG_OVERRIDES with its incoming value
ForwardsPositionalAndKwargs(f) ==
    /\ f.passed_pos = f.pos
    /\ \A k \in DOMAIN BoundKwargs(f.received) \ OverrideKeys :
          /\ k \in DOMAIN f.passed
          /\ f.passed[k] = f.received[k]

\* C29 as stated: sampler_function forwards model, x, sigmas, the extra
\* positional arguments and extra_args unchanged (an absent extra_args stays
\* absent), and every other incoming keyword argument that is not one of the
\* overridden names with its incoming value.
C29_ForwardsUnchanged ==
    \A n \in ForwardingFrames :
        LET f == lastSF.frames[n]
        IN  /\ ForwardsPositionalAndKwargs(f)
            /\ ("extra_args" \in DOMAIN f.passed)
                  = ("extra_args" \in DOMAIN f.received)
            /\ "extra_args" \in DOMAIN f.received
                  => f.passed["extra_args"] = f.received["extra_args"]

\* C29 amended: sampler_function forwards model, x, sigmas and the extra
\* positional arguments unchanged, and every other incoming keyword argument
\* that is not one of the overridden names with its incoming value; it
\* forwards extra_args unchanged when the caller gave one, and an empty
\* mapping when the caller gave none.
C29_ForwardsExtraArgsOrEmpty ==
    \A n \in ForwardingFrames :
        LET f == lastSF.frames[n]
        IN  /\ ForwardsPositionalAndKwargs(f)
            /\ "extra_args" \in DOMAIN f.passed
            /\ f.passed["extra_args"]
                  = IF "extra_args" \in DOMAIN f.received
                    THEN f.received["extra_args"] ELSE EmptyDict
            /\ n < Len(lastSF.frames)
            /\ lastSF.frames[n + 1].pos = f.pos
            /\ lastSF.frames[n + 1].received = f.passed

\* a call by hand with an extra positional argument and no extra_args: the
\* wrapped function gets the argument, the caller's disable and an empty
\* extra_args
C29_Witness ==
    /\ lastSF.called /\ lastSF.via = "direct" /\ Len(lastSF.frames) = 2
    /\ lastSF.frames[1].called
    /\ lastSF.frames[1].pos.args = <<"extra_positional">>
    /\ "extra_args" \notin DOMAIN lastSF.frames[1].received
    /\ lastSF.frames[2].pos.args = <<"extra_positional">>
    /\ lastSF.frames[2].received["disable"] = "True"
    /\ lastSF.frames[2].received["extra_args"] = EmptyDict

====
